---- MODULE Spec2Model ----
(***************************************************************************)
(* Model of the modular string-processing pipeline:                        *)
(*   - the manual-reset monitor (plugins/sync/monitor.c),                   *)
(*   - the bounded ring buffer built on it                                  *)
(*     (plugins/sync/consumer_producer.c),                                  *)
(*   - the per-stage consumer thread (plugins/plugin_common.c),             *)
(*   - the orchestrator (main.c).                                           *)
(* Every thread is a program counter pc[t] plus its locals; every action   *)
(* is one atomic step of the C code (a mutex-protected section of a        *)
(* monitor operation, or one statement of a section guarded by the queue   *)
(* mutex).                                                                 *)
(***************************************************************************)
EXTENDS Integers, Sequences, FiniteSets, TLC

VARIABLES
    \* consumer_producer_t, one per queue index
    capacity, count, head, tail, items, queue_mutex,
    \* monitor_t.signaled of the three monitors of each queue
    not_full, not_empty, finished_monitor,
    \* threads: position, current queue, put argument, get local, return address
    pc, queue_of, item, got, ret_pc, loop_i,
    \* plugin_context_t of each stage
    process_function, next_place_work, finished, initialized, thread_ready, thread_created,
    \* the statics of each stage's copy of plugin_common.c
    total_plugin_instances, current_init_instance_index, next_wait_instance_index,
    next_fini_instance_index,
    \* main: plugin names, queue size, unread input lines, lines read so far, locals
    plugin_names, queue_size, stdin, lines_read, wait_error, exit_status,
    \* the stage whose init returns an error (NoFault: none) and the value
    \* init_all_plugins returned to main
    init_fault, init_result,
    \* parse_queue_size_arg: its argument, its accumulator and what it returned
    argument_string, parse_result, parse_return,
    \* how many allocations inside a transform are still going to fail, and
    \* (ghost) what each call of a stage's transform returned, in call order
    alloc_failures, results,
    \* (ghost) how many errors of its downstream callback each worker has logged,
    \* and the errors plugin_place_work returned to the thread that submits
    log_errors, submit_errors,
    \* (ghost) what each call of common_plugin_init by the tests returned
    init_errors,
    \* consumer_producer_destroy against calls in progress: the mutex_initialized
    \* flag of each queue, the monitors of each queue that monitor_destroy has
    \* destroyed, (ghost) the records destroy has released, in order, (ghost) how
    \* many calls of destroy have returned, the error each thread's last put
    \* returned, (ghost) the threads that were blocked in put on a full buffer when
    \* the first destroy began, and whether the pthread library of the build detects
    \* the use of a destroyed mutex or condition variable
    mutex_initialized, monitor_destroyed, freed, destroy_calls, put_error,
    blocked_at_destroy, strict_pthreads,
    \* (ghost) the bytes fgets has taken from standard input so far
    consumed,
    \* (ghost) every return of plugin_wait_finished to the main thread, in order:
    \* the stage, the error returned and the loop that called; (ghost) the
    \* stages whose plugin_fini the main thread has called, in call order
    wait_log, fini_log,
    \* (ghost) the state of every resource the code under test has constructed
    \* (memory blocks, mutexes, condition variables, monitors, threads): live,
    \* released, or released when it was not live
    heap,
    \* the ping-pong tests: the signaled flag of monitors[0] and monitors[1], and
    \* the index of the monitor each thread signals (its other_monitor pointer)
    monitors, other_monitor,
    \* the monitor tests: the flag of the monitor under test, how the last
    \* monitor_wait of each thread returned, and (ghost) the threads that were parked
    \* in monitor_wait when a signal was issued and have not returned since
    test_monitor, wait_result, released,
    \* history (ghost) variables: records in insertion / removal order per queue,
    \* strings each stage handed to its downstream callback / to its transform /
    \* freed untransformed because the stage was shutting down
    put_log, get_log, forwarded, transformed, discarded

bufvars == <<capacity, count, head, tail, items, queue_mutex,
             not_full, not_empty, finished_monitor>>
thrvars == <<pc, queue_of, item, got, ret_pc, loop_i>>
ctxvars == <<process_function, next_place_work, finished, initialized, thread_ready,
             thread_created>>
statics == <<total_plugin_instances, current_init_instance_index,
             next_wait_instance_index, next_fini_instance_index>>
monvars == <<test_monitor, wait_result, released>>
argvars == <<argument_string, parse_result, parse_return>>
faultvars == <<alloc_failures, results>>
errvars == <<log_errors, submit_errors, init_errors>>
destroyvars == <<mutex_initialized, monitor_destroyed, freed, destroy_calls, put_error,
                 blocked_at_destroy, strict_pthreads>>
linevars == <<consumed>>
callvars == <<wait_log, fini_log>>
heapvars == <<heap>>
pingvars == <<monitors, other_monitor>>
auxvars == <<argvars, faultvars, errvars, destroyvars, linevars, callvars,
            heapvars, pingvars>>
mainvars == <<plugin_names, queue_size, stdin, lines_read, wait_error, exit_status,
              init_fault, init_result, monvars, auxvars>>
plugvars == <<ctxvars, statics, mainvars, forwarded, transformed, discarded>>
logvars == <<put_log, get_log>>
vars == <<bufvars, thrvars, plugvars, logvars>>

(***************************************************************************)
(* Bounds of the model.                                                    *)
(***************************************************************************)
MaxCapacity == 2
NumMonThreads == 3
OpsPerThread == 2
MaxArgLen == 2
MaxAllocFailures == 1
MaxDriverOps == 5
MaxDestroyCalls == 2
NumFinThreads == 2
MaxInitCalls == 2
FinOps == 3
\* init .. fini cycles of the life-cycle test (the test runs 5)
MaxCycles == 2
\* rounds of each ping-pong thread (the tests run 3 and 5 of them)
PingRounds == 5
NumProducers == 2
ItemsPerProducer == 2
MaxStages == 2
MaxLines == 2
\* the index of no stage: the init of no stage fails
NoFault == MaxStages

(***************************************************************************)
(* Values.  A record is a C string: a sequence of one-character strings.   *)
(* NULL is the null pointer; it is no string.                              *)
(***************************************************************************)
NULL == <<"NULL">>
Unlocked == -1
DigitChar == <<"0", "1", "2", "3", "4", "5", "6", "7", "8", "9">>

Producers == 1 .. NumProducers
Consumers == (NumProducers + 1) .. (2 * NumProducers)

\* snprintf(buffer, ..., "Producer-%d-Item-%d", thread_id, i), shortened to "P<id>_<i>"
ProducerItem(t, i) == <<"P", DigitChar[t + 1], "_", DigitChar[i + 1]>>

(***************************************************************************)
(* monitor.c: the three operations on the signaled flag.  Each runs under *)
(* the monitor's own mutex, so each is one atomic step.                    *)
(***************************************************************************)
monitor_signal(signaled) == 1
\* a monitor that is created latched
monitor_init_latched(monitor) == 1
\* monitor_init: monitor->signaled = 0
monitor_init(monitor) == 0
\* a reset that leaves the flag as it is
monitor_reset_keeps(signaled) == signaled
monitor_reset(signaled) == 0
\* a wait that ignores the latched flag and always parks
monitor_wait_blocks(signaled) == FALSE
\* a wait that returns whatever the flag is
monitor_wait_passes_always(signaled) == TRUE
\* an auto-reset wait, which clears the flag when it returns
monitor_wait_consumes(signaled) == 0
\* monitor_wait returns at a moment at which signaled is observed set
monitor_wait_passes(signaled) == signaled = 1
\* the flag after monitor_wait has returned: monitor_wait writes nothing to it
monitor_wait(signaled) == signaled

\* a faulty lock that excludes nobody
pthread_mutex_lock_unguarded(q) == TRUE
\* pthread_mutex_lock(&queue->queue_mutex) can return only while no thread holds it
pthread_mutex_lock(q) == queue_mutex[q] = Unlocked

\* faulty index advances: without the wrap-around, and without the advance
NextIndexNoWrap(index, cap) == index + 1
NextIndexStuck(index, cap) == index
\* ring index advance: (index + 1) % capacity
NextIndex(index, cap) == (index + 1) % cap

(***************************************************************************)
(* consumer_producer_init                                                  *)
(***************************************************************************)
QueueInit(Q, cap) ==
    /\ capacity = [q \in Q |-> cap]
    /\ count = [q \in Q |-> 0]
    /\ head = [q \in Q |-> 0]
    /\ tail = [q \in Q |-> 0]
    /\ items = [q \in Q |-> [s \in 0 .. cap - 1 |-> NULL]]
    /\ queue_mutex = [q \in Q |-> Unlocked]
    /\ not_full = [q \in Q |-> monitor_signal(monitor_init(q))]
    /\ not_empty = [q \in Q |-> monitor_init(q)]
    /\ finished_monitor = [q \in Q |-> monitor_init(q)]
    /\ put_log = [q \in Q |-> <<>>]
    /\ get_log = [q \in Q |-> <<>>]

(***************************************************************************)
(* consumer_producer_put, one action per step.                             *)
(***************************************************************************)
\* lock; if (count < capacity) items[tail] = strdup(item); else unlock
PutTry(t) ==
    LET q == queue_of[t] IN
    /\ pc[t] = "put_try"
    /\ pthread_mutex_lock(q)
    /\ IF count[q] < capacity[q] /\ items[q] = <<>>
       THEN \* queue->items[queue->tail] = copy_of_item through a NULL items pointer
            /\ pc' = [pc EXCEPT ![t] = "crashed"]
            /\ UNCHANGED <<items, queue_mutex>>
       ELSE IF count[q] < capacity[q]
       THEN /\ items' = [items EXCEPT ![q][tail[q]] = item[t]]
            /\ queue_mutex' = [queue_mutex EXCEPT ![q] = t]
            /\ pc' = [pc EXCEPT ![t] = "put_tail"]
       ELSE /\ pc' = [pc EXCEPT ![t] = "put_reset"]
            /\ UNCHANGED <<items, queue_mutex>>
    /\ UNCHANGED <<capacity, count, head, tail, not_full, not_empty, finished_monitor,
                   queue_of, item, got, ret_pc, loop_i, logvars, plugvars>>

\* tail = (tail + 1) % capacity
PutTail(t) ==
    LET q == queue_of[t] IN
    /\ pc[t] = "put_tail"
    /\ tail' = [tail EXCEPT ![q] = NextIndex(tail[q], capacity[q])]
    /\ pc' = [pc EXCEPT ![t] = "put_count"]
    /\ UNCHANGED <<capacity, count, head, items, queue_mutex, not_full, not_empty,
                   finished_monitor, queue_of, item, got, ret_pc, loop_i, logvars, plugvars>>

\* count++; unlock
PutCount(t) ==
    LET q == queue_of[t] IN
    /\ pc[t] = "put_count"
    /\ count' = [count EXCEPT ![q] = count[q] + 1]
    /\ queue_mutex' = [queue_mutex EXCEPT ![q] = Unlocked]
    /\ put_log' = [put_log EXCEPT ![q] = Append(put_log[q], item[t])]
    /\ pc' = [pc EXCEPT ![t] = "put_signal"]
    /\ UNCHANGED <<capacity, head, tail, items, not_full, not_empty, finished_monitor,
                   queue_of, item, got, ret_pc, loop_i, get_log, plugvars>>

\* monitor_signal(&not_empty_monitor); return NULL
PutSignal(t) ==
    LET q == queue_of[t] IN
    /\ pc[t] = "put_signal"
    /\ not_empty' = [not_empty EXCEPT ![q] = monitor_signal(not_empty[q])]
    /\ pc' = [pc EXCEPT ![t] = ret_pc[t]]
    /\ UNCHANGED <<capacity, count, head, tail, items, queue_mutex, not_full,
                   finished_monitor, queue_of, item, got, ret_pc, loop_i, logvars, plugvars>>

\* monitor_reset(&not_full_monitor)
PutReset(t) ==
    LET q == queue_of[t] IN
    /\ pc[t] = "put_reset"
    /\ not_full' = [not_full EXCEPT ![q] = monitor_reset(not_full[q])]
    /\ pc' = [pc EXCEPT ![t] = "put_wait"]
    /\ UNCHANGED <<capacity, count, head, tail, items, queue_mutex, not_empty,
                   finished_monitor, queue_of, item, got, ret_pc, loop_i, logvars, plugvars>>

\* monitor_wait(&not_full_monitor): returns at once if signaled, else parks
PutWait(t) ==
    LET q == queue_of[t] IN
    /\ pc[t] = "put_wait"
    /\ pc' = [pc EXCEPT ![t] = IF monitor_wait_passes(not_full[q])
                               THEN "put_try" ELSE "put_parked"]
    /\ UNCHANGED <<bufvars, queue_of, item, got, ret_pc, loop_i, logvars, plugvars>>

\* pthread_cond_wait returns and the loop sees signaled set: retry
PutWake(t) ==
    LET q == queue_of[t] IN
    /\ pc[t] = "put_parked"
    /\ monitor_wait_passes(not_full[q])
    /\ pc' = [pc EXCEPT ![t] = "put_try"]
    /\ UNCHANGED <<bufvars, queue_of, item, got, ret_pc, loop_i, logvars, plugvars>>

(***************************************************************************)
(* consumer_producer_get, one action per step.                             *)
(***************************************************************************)
\* lock; if (count > 0) { item = items[head]; items[head] = NULL; } else unlock
GetTry(t) ==
    LET q == queue_of[t] IN
    /\ pc[t] = "get_try"
    /\ pthread_mutex_lock(q)
    /\ IF count[q] > 0
       THEN /\ got' = [got EXCEPT ![t] = items[q][head[q]]]
            /\ items' = [items EXCEPT ![q][head[q]] = NULL]
            /\ queue_mutex' = [queue_mutex EXCEPT ![q] = t]
            /\ pc' = [pc EXCEPT ![t] = "get_head"]
       ELSE /\ pc' = [pc EXCEPT ![t] = "get_reset"]
            /\ UNCHANGED <<got, items, queue_mutex>>
    /\ UNCHANGED <<capacity, count, head, tail, not_full, not_empty, finished_monitor,
                   queue_of, item, ret_pc, loop_i, logvars, plugvars>>

\* head = (head + 1) % capacity
GetHead(t) ==
    LET q == queue_of[t] IN
    /\ pc[t] = "get_head"
    /\ head' = [head EXCEPT ![q] = NextIndex(head[q], capacity[q])]
    /\ pc' = [pc EXCEPT ![t] = "get_count"]
    /\ UNCHANGED <<capacity, count, tail, items, queue_mutex, not_full, not_empty,
                   finished_monitor, queue_of, item, got, ret_pc, loop_i, logvars, plugvars>>

\* count--; unlock
GetCount(t) ==
    LET q == queue_of[t] IN
    /\ pc[t] = "get_count"
    /\ count' = [count EXCEPT ![q] = count[q] - 1]
    /\ queue_mutex' = [queue_mutex EXCEPT ![q] = Unlocked]
    /\ get_log' = [get_log EXCEPT ![q] = Append(get_log[q], got[t])]
    /\ pc' = [pc EXCEPT ![t] = "get_signal"]
    /\ UNCHANGED <<capacity, head, tail, items, not_full, not_empty, finished_monitor,
                   queue_of, item, got, ret_pc, loop_i, put_log, plugvars>>

\* monitor_signal(&not_full_monitor); return item
GetSignal(t) ==
    LET q == queue_of[t] IN
    /\ pc[t] = "get_signal"
    /\ not_full' = [not_full EXCEPT ![q] = monitor_signal(not_full[q])]
    /\ pc' = [pc EXCEPT ![t] = ret_pc[t]]
    /\ UNCHANGED <<capacity, count, head, tail, items, queue_mutex, not_empty,
                   finished_monitor, queue_of, item, got, ret_pc, loop_i, logvars, plugvars>>

\* monitor_reset(&not_empty_monitor)
GetReset(t) ==
    LET q == queue_of[t] IN
    /\ pc[t] = "get_reset"
    /\ not_empty' = [not_empty EXCEPT ![q] = monitor_reset(not_empty[q])]
    /\ pc' = [pc EXCEPT ![t] = "get_wait"]
    /\ UNCHANGED <<capacity, count, head, tail, items, queue_mutex, not_full,
                   finished_monitor, queue_of, item, got, ret_pc, loop_i, logvars, plugvars>>

\* monitor_wait(&not_empty_monitor): returns at once if signaled, else parks
GetWait(t) ==
    LET q == queue_of[t] IN
    /\ pc[t] = "get_wait"
    /\ pc' = [pc EXCEPT ![t] = IF monitor_wait_passes(not_empty[q])
                               THEN "get_try" ELSE "get_parked"]
    /\ UNCHANGED <<bufvars, queue_of, item, got, ret_pc, loop_i, logvars, plugvars>>

\* pthread_cond_wait returns and the loop sees signaled set: retry
GetWake(t) ==
    LET q == queue_of[t] IN
    /\ pc[t] = "get_parked"
    /\ monitor_wait_passes(not_empty[q])
    /\ pc' = [pc EXCEPT ![t] = "get_try"]
    /\ UNCHANGED <<bufvars, queue_of, item, got, ret_pc, loop_i, logvars, plugvars>>

\* one step of a put or get call in progress in thread t
QueueStep(t) ==
    \/ PutTry(t) \/ PutTail(t) \/ PutCount(t) \/ PutSignal(t)
    \/ PutReset(t) \/ PutWait(t) \/ PutWake(t)
    \/ GetTry(t) \/ GetHead(t) \/ GetCount(t) \/ GetSignal(t)
    \/ GetReset(t) \/ GetWait(t) \/ GetWake(t)

(***************************************************************************)
(* The shared-buffer workload of the queue tests: producer_thread and      *)
(* consumer_thread of tests/consumer_producer_test.c on one queue.         *)
(***************************************************************************)
\* for (i = 0; i < num_items; i++) consumer_producer_put(queue, buffer)
producer_thread(t) ==
    /\ t \in Producers
    /\ pc[t] = "loop"
    /\ IF loop_i[t] < ItemsPerProducer
       THEN /\ item' = [item EXCEPT ![t] = ProducerItem(t, loop_i[t])]
            /\ loop_i' = [loop_i EXCEPT ![t] = loop_i[t] + 1]
            /\ pc' = [pc EXCEPT ![t] = "put_try"]
       ELSE /\ pc' = [pc EXCEPT ![t] = "done"]
            /\ UNCHANGED <<item, loop_i>>
    /\ UNCHANGED <<bufvars, queue_of, got, ret_pc, logvars, plugvars>>

\* for (i = 0; i < num_items; i++) { item = consumer_producer_get(queue); free(item); }
consumer_thread(t) ==
    /\ t \in Consumers
    /\ pc[t] = "loop"
    /\ IF loop_i[t] < ItemsPerProducer
       THEN /\ loop_i' = [loop_i EXCEPT ![t] = loop_i[t] + 1]
            /\ pc' = [pc EXCEPT ![t] = "get_try"]
       ELSE /\ pc' = [pc EXCEPT ![t] = "done"]
            /\ UNCHANGED loop_i
    /\ UNCHANGED <<bufvars, queue_of, item, got, ret_pc, logvars, plugvars>>

\* the queue tests use the queue alone: there is no plugin layer
\* parse_queue_size_arg is not running
NoArgument == argument_string = <<>> /\ parse_result = <<>> /\ parse_return = 0
NoErrors == log_errors = <<>> /\ submit_errors = <<>> /\ init_errors = <<>>
NoFaults == alloc_failures = 0 /\ results = <<>> /\ NoErrors
\* no consumer_producer_destroy under test
NoDestroy ==
    /\ mutex_initialized = <<>> /\ monitor_destroyed = <<>> /\ freed = <<>>
    /\ destroy_calls = 0 /\ put_error = <<>> /\ blocked_at_destroy = {}
    /\ strict_pthreads = FALSE
\* standard input is not read byte by byte
NoLines == consumed = <<>>
\* no plugin_wait_finished or plugin_fini has been called
NoCalls == wait_log = <<>> /\ fini_log = <<>>
\* the allocations of the process are not followed
NoHeap == heap = <<>>
\* no ping-pong test is running
NoPing == monitors = <<>> /\ other_monitor = <<>>
NoAux == NoArgument /\ NoFaults /\ NoDestroy /\ NoLines /\ NoCalls /\ NoHeap /\ NoPing

\* no monitor under test
NoMonitor == test_monitor = 0 /\ wait_result = <<>> /\ released = {}

NoPlugins ==
    /\ process_function = <<>> /\ next_place_work = <<>> /\ finished = <<>>
    /\ initialized = <<>> /\ thread_ready = <<>> /\ thread_created = <<>>
    /\ total_plugin_instances = <<>> /\ next_wait_instance_index = <<>>
    /\ next_fini_instance_index = <<>>
    /\ current_init_instance_index = <<>>
    /\ plugin_names = <<>> /\ queue_size = 0 /\ stdin = <<>> /\ lines_read = <<>>
    /\ wait_error = NULL /\ exit_status = 0
    /\ init_fault = NoFault /\ init_result = 0
    /\ forwarded = <<>> /\ transformed = <<>> /\ discarded = <<>>

BufInit ==
    /\ \E cap \in 1 .. MaxCapacity : QueueInit({0}, cap)
    /\ pc = [t \in Producers \cup Consumers |-> "loop"]
    /\ queue_of = [t \in Producers \cup Consumers |-> 0]
    /\ item = [t \in Producers \cup Consumers |-> NULL]
    /\ got = [t \in Producers \cup Consumers |-> NULL]
    /\ ret_pc = [t \in Producers \cup Consumers |-> "loop"]
    /\ loop_i = [t \in Producers \cup Consumers |-> 0]
    /\ NoPlugins
    /\ NoMonitor
    /\ NoAux

BufThread(t) == producer_thread(t) \/ consumer_thread(t) \/ QueueStep(t)

BufNext == \E t \in Producers \cup Consumers : BufThread(t)

\* the threads of the test are scheduled fairly by the operating system
BufSpec ==
    /\ BufInit
    /\ [][BufNext]_vars
    /\ \A t \in Producers \cup Consumers : WF_vars(BufThread(t))

(***************************************************************************)
(* The plugin layer.  Stage i (0-based, as in main.c) owns queue i and the  *)
(* worker thread Worker(i); Main is the thread of main().  Every stage is   *)
(* loaded into its own namespace, so it has its own copy of the statics    *)
(* of plugin_common.c.                                                     *)
(***************************************************************************)
Main == 0
Worker(i) == i + 1
NoCallback == -1
\* tests/plugin_infra_test.c: mock_next_plugin_place_work, which stores the string and
\* returns success
MockCallback == -2
\* tests/plugin_infra_test.c: mock_failing_next_plugin, which returns an error
FailingCallback == -3
\* main: return 1 when the command line is invalid
ExitInvalidArguments == 1
END == <<"<", "E", "N", "D", ">">>

Lower == <<"a", "b", "c", "d", "e", "f", "g", "h", "i", "j", "k", "l", "m",
           "n", "o", "p", "q", "r", "s", "t", "u", "v", "w", "x", "y", "z">>
Upper == <<"A", "B", "C", "D", "E", "F", "G", "H", "I", "J", "K", "L", "M",
           "N", "O", "P", "Q", "R", "S", "T", "U", "V", "W", "X", "Y", "Z">>
toupper(c) ==
    IF \E k \in 1 .. 26 : Lower[k] = c
    THEN Upper[CHOOSE k \in 1 .. 26 : Lower[k] = c]
    ELSE c

\* plugins/uppercaser.c
uppercase_transform(s) == [k \in 1 .. Len(s) |-> toupper(s[k])]
\* plugins/rotator.c: the last character moves to the front
rotator_transform(s) ==
    IF Len(s) = 0 THEN <<>>
    ELSE [k \in 1 .. Len(s) |-> IF k = 1 THEN s[Len(s)] ELSE s[k - 1]]
\* tests/plugin_infra_test.c: a transform that produces no result
test_null_transform(s) == NULL

PluginNames == {"uppercaser", "rotator", "null_test"}
\* plugin_context->process_function(input_string)
process(name, s) ==
    CASE name = "uppercaser" -> uppercase_transform(s)
      [] name = "rotator" -> rotator_transform(s)
      [] name = "null_test" -> test_null_transform(s)
      [] name = "in_place_test" -> s

\* the input lines the model feeds to standard input (without their newline)
Lines == {<<"h", "e", "l", "l", "o">>, <<"<", "e", "n", "d", ">">>}
\* finite input streams terminated by the sentinel line
Inputs ==
    UNION {{Append(ls, END) : ls \in [1 .. m -> Lines]} : m \in 0 .. MaxLines}

\* a faulty comparison that recognises no sentinel
is_end_signal_never(str) == FALSE
\* a comparison that reads the result of strcmp the wrong way round
is_end_signal_inverted(str) == str # END
\* 0 == strcmp(input_string, "<END>")
is_end_signal(str) == str = END

NumStages == Len(plugin_names)
Stages == 0 .. NumStages - 1
\* the main thread and one slot per possible worker; the worker of a stage that
\* is not on the command line is never created
PipeThreads == 0 .. MaxStages

\* the process after exec: the command line names the stages and the capacity,
\* standard input holds one of input_streams, nothing is initialized yet
PipeStart(input_streams, init_may_fail) ==
    /\ \E n \in 1 .. MaxStages : plugin_names \in [1 .. n -> PluginNames]
    /\ queue_size \in 1 .. MaxCapacity
    /\ stdin \in input_streams
    /\ lines_read = <<>>
    \* memset(queue, 0, sizeof(consumer_producer_t)) until consumer_producer_init
    /\ capacity = [i \in Stages |-> 0]
    /\ count = [i \in Stages |-> 0]
    /\ head = [i \in Stages |-> 0]
    /\ tail = [i \in Stages |-> 0]
    /\ items = [i \in Stages |-> <<>>]
    /\ queue_mutex = [i \in Stages |-> Unlocked]
    /\ not_full = [i \in Stages |-> 0]
    /\ not_empty = [i \in Stages |-> 0]
    /\ finished_monitor = [i \in Stages |-> 0]
    /\ pc = [t \in PipeThreads |-> IF t = Main THEN "m_init" ELSE "not_created"]
    /\ queue_of = [t \in PipeThreads |-> 0]
    /\ item = [t \in PipeThreads |-> NULL]
    /\ got = [t \in PipeThreads |-> NULL]
    /\ ret_pc = [t \in PipeThreads |-> "none"]
    /\ loop_i = [t \in PipeThreads |-> 0]
    /\ process_function = [i \in Stages |-> plugin_names[i + 1]]
    /\ next_place_work = [i \in Stages |-> NoCallback]
    /\ finished = [i \in Stages |-> 0]
    /\ initialized = [i \in Stages |-> 0]
    /\ thread_ready = [i \in Stages |-> 0]
    /\ thread_created = [i \in Stages |-> 0]
    /\ total_plugin_instances = [i \in Stages |-> 0]
    /\ next_wait_instance_index = [i \in Stages |-> 0]
    /\ next_fini_instance_index = [i \in Stages |-> 0]
    /\ current_init_instance_index = [i \in Stages |-> 0]
    /\ wait_error = NULL
    /\ exit_status = 0
    /\ init_fault \in IF init_may_fail THEN Stages \cup {NoFault} ELSE {NoFault}
    /\ NoArgument
    /\ alloc_failures = 0
    /\ results = [i \in Stages |-> <<>>]
    /\ log_errors = [i \in Stages |-> 0]
    /\ submit_errors = <<>>
    /\ init_errors = <<>>
    /\ NoDestroy /\ NoLines /\ NoCalls /\ NoHeap /\ NoPing
    /\ init_result = 0
    /\ NoMonitor
    /\ put_log = [i \in Stages |-> <<>>]
    /\ get_log = [i \in Stages |-> <<>>]
    /\ forwarded = [i \in Stages |-> <<>>]
    /\ transformed = [i \in Stages |-> <<>>]
    /\ discarded = [i \in Stages |-> <<>>]

PipeInit == PipeStart(Inputs, TRUE)

(***************************************************************************)
(* plugin_consumer_thread                                                  *)
(***************************************************************************)
\* thread_ready = 1; pthread_cond_signal(&ready_cond)
WorkerReady(i) ==
    /\ pc[Worker(i)] = "w_start"
    /\ thread_ready' = [thread_ready EXCEPT ![i] = 1]
    /\ pc' = [pc EXCEPT ![Worker(i)] = "w_loop"]
    /\ UNCHANGED <<bufvars, queue_of, item, got, ret_pc, loop_i, logvars,
                   process_function, next_place_work, finished, initialized,
                   thread_created, statics, mainvars, forwarded, transformed,
                   discarded>>

\* while (!finished) { input_string = consumer_producer_get(queue); ...
WorkerLoop(i) ==
    LET t == Worker(i) IN
    /\ pc[t] = "w_loop"
    /\ IF finished[i] = 1
       THEN /\ pc' = [pc EXCEPT ![t] = "exited"]
            /\ UNCHANGED <<queue_of, ret_pc>>
       ELSE /\ queue_of' = [queue_of EXCEPT ![t] = i]
            /\ ret_pc' = [ret_pc EXCEPT ![t] = "w_got"]
            /\ pc' = [pc EXCEPT ![t] = "get_try"]
    /\ UNCHANGED <<bufvars, item, got, loop_i, logvars, plugvars>>

\* plugin_place_work of stage s refuses the string without queueing it
PlaceWorkRejects(s) == total_plugin_instances[s] = 0 \/ initialized[s] = 0
\* the error string plugin_place_work returns when it refuses
place_work_error(s) ==
    IF total_plugin_instances[s] = 0 THEN "No plugin instances initialized"
    ELSE "Plugin context not initialized"
\* what mock_failing_next_plugin returns
DownstreamError == "Mock next plugin error"

\* a worker that gives up when its downstream callback returns an error
after_forward_propagates(error_handler, after) ==
    IF error_handler THEN "exited" ELSE after
\* forward_to_next_plugin is void: if (NULL != error_handler) log_error(...), and
\* the worker goes on where it would have gone on anyway
after_forward(error_handler, after) == after

\* malloc, calloc, pthread_mutex_init, pthread_cond_init, monitor_init, pthread_create
Alloc(h, r) == (r :> "live") @@ h
\* free, pthread_mutex_destroy, pthread_cond_destroy, monitor_destroy
Free(h, r) ==
    IF r \in DOMAIN h /\ h[r] = "live" THEN (r :> "released") @@ h
    ELSE (r :> "released when not live") @@ h
RECURSIVE FreeAll(_, _)
FreeAll(h, rs) == IF rs = <<>> THEN h ELSE FreeAll(Free(h, Head(rs)), Tail(rs))
\* NULL != plugin_instances_array
TableAllocated ==
    \E r \in DOMAIN heap : r[1] = "plugin_instances_array" /\ heap[r] = "live"
\* a last plugin_fini that leaves the instance table allocated
fini_keeps_table(h, last) == h
\* plugin_fini, when every context is finalized:
\* if (NULL != plugin_instances_array) { free(plugin_instances_array); ... = NULL; }
fini_frees_table(h, last) ==
    LET table == {r \in DOMAIN h : r[1] = "plugin_instances_array" /\ h[r] = "live"}
    IN IF last /\ table # {} THEN Free(h, CHOOSE r \in table : TRUE) ELSE h

\* a transform that edits its argument and returns it: the case
\* processed == input_string that the worker provides for
InPlaceTransform == "in_place_test"
\* the object a transform returns: its argument or a new allocation
result_object(name, input_object, new_object) ==
    IF name = InPlaceTransform THEN input_object ELSE new_object
\* a worker that frees the result whether or not it is the input
worker_frees_both(h, input_object, processed_object) ==
    Free(Free(h, processed_object), input_object)
\* if (processed != input_string) free(processed); free(input_string);
worker_frees(h, input_object, processed_object) ==
    Free(IF processed_object # input_object THEN Free(h, processed_object) ELSE h,
         input_object)
\* the record that the worker of stage i has removed last, and the result of its
\* transform when that is a new allocation
InputObject(i) == <<"input_string", i, Len(get_log[i])>>
ProcessedObject(i) ==
    result_object(process_function[i], InputObject(i),
                  <<"processed", i, Len(get_log[i])>>)

\* a worker that gives up when its transform returns no result
after_null_result_exits == "exited"
\* if (NULL == processed_string) { log_error(...); continue; }
after_null_result == "w_loop"
\* whether this call of the transform returns NULL because an allocation fails: it
\* can whenever the environment still has a failure in store
may_fail(failures_left, sentinel) ==
    IF failures_left > 0 /\ ~sentinel THEN {FALSE, TRUE} ELSE {FALSE}

\* the body of the loop after the get: the shutdown checks, the sentinel branch up
\* to forward_to_next_plugin, or the transform and forward_to_next_plugin
WorkerGot(i) ==
    LET t == Worker(i)
        input_string == got[t]
        sentinel == is_end_signal(input_string)
        after == IF sentinel THEN "w_end" ELSE "w_loop"
        calls == next_place_work[i] # NoCallback
        queues == /\ calls
                  /\ next_place_work[i] \in DOMAIN capacity
                  /\ ~PlaceWorkRejects(next_place_work[i])
        held == Alloc(heap, InputObject(i))
        error_handler == /\ calls
                         /\ \/ next_place_work[i] = FailingCallback
                            \/ /\ next_place_work[i] \in DOMAIN capacity
                               /\ PlaceWorkRejects(next_place_work[i])
    IN
    /\ pc[t] = "w_got"
    /\ IF input_string = NULL
       THEN /\ pc' = [pc EXCEPT ![t] = IF finished[i] = 1 THEN "exited" ELSE "w_loop"]
            /\ UNCHANGED <<queue_of, item, ret_pc, forwarded, transformed, discarded,
                           faultvars, log_errors, heap>>
       ELSE IF finished[i] = 1
       THEN /\ discarded' = [discarded EXCEPT ![i] = Append(@, input_string)]
            /\ heap' = Free(held, InputObject(i))
            /\ pc' = [pc EXCEPT ![t] = "exited"]
            /\ UNCHANGED <<queue_of, item, ret_pc, forwarded, transformed, faultvars,
                           log_errors>>
       ELSE \E failed \in may_fail(alloc_failures, sentinel) :
            LET processed == IF sentinel THEN input_string
                             ELSE IF failed THEN NULL
                             ELSE process(process_function[i], input_string)
            IN
            /\ transformed' = IF sentinel THEN transformed
                              ELSE [transformed EXCEPT ![i] = Append(@, input_string)]
            /\ results' = IF sentinel THEN results
                          ELSE [results EXCEPT ![i] = Append(@, processed)]
            /\ alloc_failures' = IF failed THEN alloc_failures - 1 ELSE alloc_failures
            /\ UNCHANGED discarded
            /\ IF processed = NULL
               THEN /\ heap' = Free(held, InputObject(i))
                    /\ pc' = [pc EXCEPT ![t] = after_null_result]
                    /\ UNCHANGED <<queue_of, item, ret_pc, forwarded, log_errors>>
               ELSE /\ forwarded' = IF calls
                                    THEN [forwarded EXCEPT ![i] = Append(@, processed)]
                                    ELSE forwarded
                    /\ log_errors' = IF error_handler
                                     THEN [log_errors EXCEPT ![i] = @ + 1]
                                     ELSE log_errors
                    /\ IF queues
                       THEN /\ item' = [item EXCEPT ![t] = processed]
                            /\ queue_of' = [queue_of EXCEPT ![t] = next_place_work[i]]
                            /\ ret_pc' = [ret_pc EXCEPT ![t] = IF sentinel THEN after
                                                               ELSE "w_free"]
                            /\ pc' = [pc EXCEPT ![t] = "put_try"]
                            /\ heap' = IF sentinel THEN held
                                       ELSE Alloc(held, ProcessedObject(i))
                       ELSE /\ pc' = [pc EXCEPT ![t] = after_forward(error_handler, after)]
                            /\ heap' = IF sentinel THEN held
                                       ELSE worker_frees(Alloc(held, ProcessedObject(i)),
                                                         InputObject(i),
                                                         ProcessedObject(i))
                            /\ UNCHANGED <<queue_of, item, ret_pc>>
    /\ UNCHANGED <<bufvars, got, loop_i, logvars, ctxvars, statics, plugin_names,
                   queue_size, stdin, lines_read, wait_error, exit_status, init_fault,
                   init_result, monvars, argvars, submit_errors, init_errors,
                   destroyvars, linevars, callvars, pingvars>>

\* forward_to_next_plugin has returned from the put into the next stage:
\* if (processed != input_string) free(processed); free(input_string);
WorkerFree(i) ==
    /\ pc[Worker(i)] = "w_free"
    /\ heap' = worker_frees(heap, InputObject(i), ProcessedObject(i))
    /\ pc' = [pc EXCEPT ![Worker(i)] = "w_loop"]
    /\ UNCHANGED <<bufvars, queue_of, item, got, ret_pc, loop_i, logvars, ctxvars,
                   statics, plugin_names, queue_size, stdin, lines_read, wait_error,
                   exit_status, init_fault, init_result, monvars, argvars, faultvars,
                   errvars, destroyvars, linevars, callvars, pingvars, forwarded, transformed,
                   discarded>>

\* plugin_context->finished = 1
WorkerMarkFinished(i) ==
    /\ pc[Worker(i)] = "w_end"
    /\ finished' = [finished EXCEPT ![i] = 1]
    /\ pc' = [pc EXCEPT ![Worker(i)] = "w_end_signal"]
    /\ UNCHANGED <<bufvars, queue_of, item, got, ret_pc, loop_i, logvars,
                   process_function, next_place_work, initialized, thread_ready,
                   thread_created, statics, mainvars, forwarded, transformed,
                   discarded>>

\* consumer_producer_signal_finished(queue); free(input_string); break
WorkerSignalFinished(i) ==
    /\ pc[Worker(i)] = "w_end_signal"
    /\ finished_monitor' = [finished_monitor EXCEPT ![i] = monitor_signal(@)]
    /\ heap' = Free(heap, InputObject(i))
    /\ pc' = [pc EXCEPT ![Worker(i)] = "exited"]
    /\ UNCHANGED <<capacity, count, head, tail, items, queue_mutex, not_full, not_empty,
                   queue_of, item, got, ret_pc, loop_i, logvars, ctxvars, statics,
                   plugin_names, queue_size, stdin, lines_read, wait_error,
                   exit_status, init_fault, init_result, monvars, argvars, faultvars,
                   errvars, destroyvars, linevars, callvars, pingvars, forwarded, transformed,
                   discarded>>

(***************************************************************************)
(* main: init_all_plugins, connect_plugins_in_pipeline_chain,              *)
(* read_input_and_process, the drain loop, cleanup_all_plugins_in_range.   *)
(***************************************************************************)
\* main: if (-1 == init_result)
main_init_failed(result) == result = -1

\* the number of plugins cleanup_all_plugins_in_range is called with: the index of
\* the failing plugin in the rollback of init_all_plugins, else all of them
InRollback == init_fault # NoFault /\ init_result = 0
cleanup_num_of_plugins == IF InRollback THEN init_fault ELSE NumStages

\* plugins_arr[i].init(queue_size): common_plugin_init up to pthread_create.  When
\* it returns an error it has released what it had allocated and has registered
\* nothing; init_all_plugins rolls back plugins 0 .. i - 1 and returns 1
MainInitPlugin ==
    LET i == loop_i[Main] IN
    /\ pc[Main] = "m_init"
    /\ IF i < NumStages /\ init_fault = i
       THEN /\ loop_i' = [loop_i EXCEPT ![Main] = 0]
            /\ IF i = 0
               THEN /\ init_result' = 1
                    /\ IF main_init_failed(1)
                       THEN /\ exit_status' = 2
                            /\ pc' = [pc EXCEPT ![Main] = "c_wait"]
                       ELSE /\ pc' = [pc EXCEPT ![Main] = "m_attach"]
                            /\ UNCHANGED exit_status
               ELSE /\ pc' = [pc EXCEPT ![Main] = "c_wait"]
                    /\ UNCHANGED <<init_result, exit_status>>
            /\ UNCHANGED <<capacity, items, not_full, not_empty, finished_monitor,
                           thread_created>>
       ELSE IF i < NumStages
       THEN /\ capacity' = [capacity EXCEPT ![i] = queue_size]
            /\ items' = [items EXCEPT ![i] = [s \in 0 .. queue_size - 1 |-> NULL]]
            /\ not_full' = [not_full EXCEPT ![i] = monitor_signal(monitor_init(i))]
            /\ not_empty' = [not_empty EXCEPT ![i] = monitor_init(i)]
            /\ finished_monitor' = [finished_monitor EXCEPT ![i] = monitor_init(i)]
            /\ thread_created' = [thread_created EXCEPT ![i] = 1]
            /\ pc' = [pc EXCEPT ![Main] = "m_ready", ![Worker(i)] = "w_start"]
            /\ UNCHANGED <<loop_i, init_result, exit_status>>
       ELSE /\ loop_i' = [loop_i EXCEPT ![Main] = 0]
            /\ IF main_init_failed(0)
               THEN /\ exit_status' = 2
                    /\ pc' = [pc EXCEPT ![Main] = "c_wait"]
               ELSE /\ pc' = [pc EXCEPT ![Main] = "m_attach"]
                    /\ UNCHANGED exit_status
            /\ UNCHANGED <<capacity, items, not_full, not_empty, finished_monitor,
                           thread_created, init_result>>
    /\ UNCHANGED <<count, head, tail, queue_mutex,
                   queue_of, item, got, ret_pc, logvars,
                   process_function, next_place_work, finished, initialized,
                   thread_ready, statics, plugin_names, queue_size, stdin, lines_read,
                   wait_error, init_fault, auxvars, monvars, forwarded, transformed,
                   discarded>>

\* an init that does not wait for its worker
thread_ready_unchecked(ready) == TRUE
\* while (!plugin_context->thread_ready) pthread_cond_wait(...) is left
thread_ready_observed(ready) == ready # 0

\* while (!thread_ready) pthread_cond_wait(...); initialized = 1; register the instance
MainWaitReady ==
    LET i == loop_i[Main] IN
    /\ pc[Main] = "m_ready"
    /\ thread_ready_observed(thread_ready[i])
    /\ initialized' = [initialized EXCEPT ![i] = 1]
    /\ current_init_instance_index' =
           [current_init_instance_index EXCEPT ![i] = total_plugin_instances[i]]
    /\ total_plugin_instances' = [total_plugin_instances EXCEPT ![i] = @ + 1]
    /\ loop_i' = [loop_i EXCEPT ![Main] = i + 1]
    /\ pc' = [pc EXCEPT ![Main] = "m_init"]
    /\ UNCHANGED <<bufvars, queue_of, item, got, ret_pc, logvars,
                   process_function, next_place_work, finished, thread_ready,
                   thread_created, next_wait_instance_index, next_fini_instance_index,
                   mainvars, forwarded, transformed,
                   discarded>>

\* a loop that leaves the last pair of stages unlinked
attach_loop_stops_early(current_index, num_of_plugins) ==
    current_index < num_of_plugins - 2
\* for (current_index = 0; current_index < num_of_plugins - 1; current_index++)
attach_loop_continues(current_index, num_of_plugins) ==
    current_index < num_of_plugins - 1

\* plugins_arr[i].attach(plugins_arr[i + 1].place_work) for i < n - 1
MainAttach ==
    LET i == loop_i[Main] IN
    /\ pc[Main] = "m_attach"
    /\ IF attach_loop_continues(i, NumStages)
       THEN /\ next_place_work' = IF current_init_instance_index[i] < total_plugin_instances[i]
                                  THEN [next_place_work EXCEPT ![i] = i + 1]
                                  ELSE next_place_work
            /\ loop_i' = [loop_i EXCEPT ![Main] = i + 1]
            /\ UNCHANGED pc
       ELSE /\ pc' = [pc EXCEPT ![Main] = "m_read"]
            /\ loop_i' = [loop_i EXCEPT ![Main] = 0]
            /\ UNCHANGED next_place_work
    /\ UNCHANGED <<bufvars, queue_of, item, got, ret_pc, logvars,
                   process_function, finished, initialized, thread_ready,
                   thread_created, statics, mainvars, forwarded, transformed,
                   discarded>>

\* fgets; strip the newline; first_plugin_in_chain->place_work(input_line_buffer)
MainReadLine ==
    /\ pc[Main] = "m_read"
    /\ IF stdin = <<>>
       THEN /\ pc' = [pc EXCEPT ![Main] = "m_drain"]
            /\ UNCHANGED <<stdin, lines_read, item, queue_of, ret_pc, exit_status>>
       ELSE /\ stdin' = Tail(stdin)
            /\ lines_read' = Append(lines_read, Head(stdin))
            /\ item' = [item EXCEPT ![Main] = Head(stdin)]
            /\ IF PlaceWorkRejects(0)
               THEN /\ exit_status' = 1
                    /\ pc' = [pc EXCEPT ![Main] = "c_wait"]
                    /\ UNCHANGED <<queue_of, ret_pc>>
               ELSE /\ queue_of' = [queue_of EXCEPT ![Main] = 0]
                    /\ ret_pc' = [ret_pc EXCEPT ![Main] = "m_placed"]
                    /\ pc' = [pc EXCEPT ![Main] = "put_try"]
                    /\ UNCHANGED exit_status
    /\ UNCHANGED <<bufvars, got, loop_i, logvars, ctxvars, statics,
                   plugin_names, queue_size, wait_error, init_fault, auxvars,
                   init_result, monvars,
                   forwarded, transformed,
                   discarded>>

\* place_work succeeded; if (0 == strcmp(input_line_buffer, "<END>")) break
MainPlaced ==
    /\ pc[Main] = "m_placed"
    /\ pc' = [pc EXCEPT ![Main] = IF is_end_signal(item[Main]) THEN "m_drain" ELSE "m_read"]
    /\ UNCHANGED <<bufvars, queue_of, item, got, ret_pc, loop_i, logvars, plugvars>>

\* a drain loop that waits for no stage
drain_loop_skips(plugin_index, total_num_of_plugins) == FALSE

\* plugin_index < total_num_of_plugins
drain_loop_continues(plugin_index, total_num_of_plugins) ==
    plugin_index < total_num_of_plugins

\* for (plugin_index ...) plugins_arr[plugin_index].wait_finished()
MainDrain ==
    LET i == loop_i[Main] IN
    /\ pc[Main] = "m_drain"
    /\ IF drain_loop_continues(i, NumStages)
       THEN /\ queue_of' = [queue_of EXCEPT ![Main] = i]
            /\ loop_i' = [loop_i EXCEPT ![Main] = i + 1]
            /\ ret_pc' = [ret_pc EXCEPT ![Main] = "m_drain"]
            /\ pc' = [pc EXCEPT ![Main] = "wf_enter"]
       ELSE /\ loop_i' = [loop_i EXCEPT ![Main] = 0]
            /\ pc' = [pc EXCEPT ![Main] = "c_wait"]
            /\ UNCHANGED <<queue_of, ret_pc>>
    /\ UNCHANGED <<bufvars, item, got, logvars, plugvars>>

\* plugin_wait_finished: take the next context, monitor_wait(&finished_monitor)
WaitFinishedEnter ==
    LET s == queue_of[Main] IN
    /\ pc[Main] = "wf_enter"
    /\ IF next_wait_instance_index[s] >= total_plugin_instances[s]
       THEN /\ wait_error' = <<"No more contexts to wait for">>
            /\ pc' = [pc EXCEPT ![Main] = ret_pc[Main]]
            /\ UNCHANGED next_wait_instance_index
       ELSE /\ next_wait_instance_index' = [next_wait_instance_index EXCEPT ![s] = @ + 1]
            /\ IF initialized[s] = 0
               THEN /\ wait_error' = <<"Plugin context not initialized">>
                    /\ pc' = [pc EXCEPT ![Main] = ret_pc[Main]]
               ELSE IF monitor_wait_passes(finished_monitor[s])
               THEN /\ wait_error' = NULL
                    /\ pc' = [pc EXCEPT ![Main] = ret_pc[Main]]
               ELSE /\ pc' = [pc EXCEPT ![Main] = "wf_parked"]
                    /\ UNCHANGED wait_error
    /\ wait_log' = IF pc'[Main] = "wf_parked" THEN wait_log
                   ELSE Append(wait_log, [stage |-> s, error |-> wait_error',
                                          caller |-> ret_pc[Main]])
    /\ UNCHANGED <<bufvars, queue_of, item, got, ret_pc, loop_i, logvars, ctxvars,
                   total_plugin_instances, current_init_instance_index,
                   next_fini_instance_index,
                   plugin_names, queue_size, stdin, lines_read, exit_status,
                   init_fault, argvars, faultvars, errvars, destroyvars, linevars, heapvars, pingvars, fini_log,
                   init_result, monvars, forwarded,
                   transformed, discarded>>

\* monitor_wait(&finished_monitor) returns: the stage has signalled finished
WaitFinishedWake ==
    /\ pc[Main] = "wf_parked"
    /\ monitor_wait_passes(finished_monitor[queue_of[Main]])
    /\ wait_error' = NULL
    /\ pc' = [pc EXCEPT ![Main] = ret_pc[Main]]
    /\ wait_log' = Append(wait_log, [stage |-> queue_of[Main], error |-> NULL,
                                      caller |-> ret_pc[Main]])
    /\ UNCHANGED <<bufvars, queue_of, item, got, ret_pc, loop_i, logvars, ctxvars, statics,
                   plugin_names, queue_size, stdin, lines_read, exit_status,
                   init_fault, argvars, faultvars, errvars, destroyvars, linevars, heapvars, pingvars, fini_log,
                   init_result, monvars, forwarded,
                   transformed, discarded>>

\* cleanup_all_plugins_in_range, first loop: wait_finished of every plugin
CleanupWait ==
    LET i == loop_i[Main] IN
    /\ pc[Main] = "c_wait"
    /\ IF i < cleanup_num_of_plugins
       THEN /\ queue_of' = [queue_of EXCEPT ![Main] = i]
            /\ ret_pc' = [ret_pc EXCEPT ![Main] = "c_wait_retry"]
            /\ pc' = [pc EXCEPT ![Main] = "wf_enter"]
            /\ UNCHANGED loop_i
       ELSE /\ loop_i' = [loop_i EXCEPT ![Main] = 0]
            /\ pc' = [pc EXCEPT ![Main] = "c_fini"]
            /\ UNCHANGED <<queue_of, ret_pc>>
    /\ UNCHANGED <<bufvars, item, got, logvars, plugvars>>

\* if (NULL != wait_error) plugins_arr[wait_index].wait_finished();  (try again)
CleanupWaitRetry ==
    /\ pc[Main] = "c_wait_retry"
    /\ loop_i' = [loop_i EXCEPT ![Main] = @ + 1]
    /\ IF wait_error # NULL
       THEN /\ ret_pc' = [ret_pc EXCEPT ![Main] = "c_wait"]
            /\ pc' = [pc EXCEPT ![Main] = "wf_enter"]
       ELSE /\ pc' = [pc EXCEPT ![Main] = "c_wait"]
            /\ UNCHANGED ret_pc
    /\ UNCHANGED <<bufvars, queue_of, item, got, logvars, plugvars>>

\* cleanup_all_plugins_in_range, second loop: plugins_arr[fini_index].fini() up to
\* current_plugin_context->finished = 1
CleanupFini ==
    LET i == loop_i[Main] IN
    /\ pc[Main] = "c_fini"
    /\ IF i >= cleanup_num_of_plugins /\ InRollback
       THEN \* free(plugins_arr); init_all_plugins returns 1 and main, which reads
            \* the freed array from here on, goes on or crashes
            /\ init_result' = 1
            /\ loop_i' = [loop_i EXCEPT ![Main] = 0]
            /\ \E next \in {"m_attach", "crashed"} : pc' = [pc EXCEPT ![Main] = next]
            /\ UNCHANGED <<next_fini_instance_index, finished>>
       ELSE IF i >= cleanup_num_of_plugins
       THEN /\ pc' = [pc EXCEPT ![Main] = "done"]
            /\ UNCHANGED <<loop_i, next_fini_instance_index, finished, init_result>>
       ELSE IF next_fini_instance_index[i] >= total_plugin_instances[i]
       THEN /\ loop_i' = [loop_i EXCEPT ![Main] = i + 1]
            /\ UNCHANGED <<pc, next_fini_instance_index, finished, init_result>>
       ELSE /\ next_fini_instance_index' = [next_fini_instance_index EXCEPT ![i] = @ + 1]
            /\ UNCHANGED init_result
            /\ IF initialized[i] = 0
               THEN /\ loop_i' = [loop_i EXCEPT ![Main] = i + 1]
                    /\ UNCHANGED <<pc, finished>>
               ELSE /\ finished' = [finished EXCEPT ![i] = 1]
                    /\ pc' = [pc EXCEPT ![Main] = "f_signal_not_empty"]
                    /\ UNCHANGED loop_i
    /\ fini_log' = IF i < cleanup_num_of_plugins THEN Append(fini_log, i) ELSE fini_log
    /\ UNCHANGED <<bufvars, queue_of, item, got, ret_pc, logvars,
                   process_function, next_place_work, initialized, thread_ready,
                   thread_created, total_plugin_instances, current_init_instance_index,
                   next_wait_instance_index,
                   plugin_names, queue_size, stdin, lines_read, wait_error, exit_status,
                   init_fault, argvars, faultvars, errvars, destroyvars, linevars, heapvars, pingvars, wait_log,
                   monvars, forwarded, transformed,
                   discarded>>

\* monitor_signal(&queue->not_empty_monitor)
FiniSignalNotEmpty ==
    /\ pc[Main] = "f_signal_not_empty"
    /\ not_empty' = [not_empty EXCEPT ![loop_i[Main]] = monitor_signal(@)]
    /\ pc' = [pc EXCEPT ![Main] = "f_signal_not_full"]
    /\ UNCHANGED <<capacity, count, head, tail, items, queue_mutex, not_full,
                   finished_monitor, queue_of, item, got, ret_pc, loop_i, logvars, plugvars>>

\* monitor_signal(&queue->not_full_monitor)
FiniSignalNotFull ==
    /\ pc[Main] = "f_signal_not_full"
    /\ not_full' = [not_full EXCEPT ![loop_i[Main]] = monitor_signal(@)]
    /\ pc' = [pc EXCEPT ![Main] = "f_join"]
    /\ UNCHANGED <<capacity, count, head, tail, items, queue_mutex, not_empty,
                   finished_monitor, queue_of, item, got, ret_pc, loop_i, logvars, plugvars>>

\* pthread_join(consumer_thread); thread_created = 0
FiniJoin ==
    LET i == loop_i[Main] IN
    /\ pc[Main] = "f_join"
    /\ thread_created[i] = 1 => pc[Worker(i)] = "exited"
    /\ thread_created' = [thread_created EXCEPT ![i] = 0]
    /\ pc' = [pc EXCEPT ![Main] = "f_destroy",
                        ![Worker(i)] = IF thread_created[i] = 1 THEN "joined" ELSE @]
    /\ UNCHANGED <<bufvars, queue_of, item, got, ret_pc, loop_i, logvars,
                   process_function, next_place_work, finished, initialized,
                   thread_ready, statics, mainvars, forwarded, transformed,
                   discarded>>

\* consumer_producer_destroy(queue); free the queue and the context; reset the
\* statics once every context is finalized
FiniDestroy ==
    LET i == loop_i[Main] IN
    /\ pc[Main] = "f_destroy"
    /\ capacity' = [capacity EXCEPT ![i] = 0]
    /\ count' = [count EXCEPT ![i] = 0]
    /\ head' = [head EXCEPT ![i] = 0]
    /\ tail' = [tail EXCEPT ![i] = 0]
    /\ items' = [items EXCEPT ![i] = <<>>]
    /\ not_full' = [not_full EXCEPT ![i] = 0]
    /\ not_empty' = [not_empty EXCEPT ![i] = 0]
    /\ finished_monitor' = [finished_monitor EXCEPT ![i] = 0]
    /\ initialized' = [initialized EXCEPT ![i] = 0]
    /\ IF next_fini_instance_index[i] >= total_plugin_instances[i]
       THEN /\ total_plugin_instances' = [total_plugin_instances EXCEPT ![i] = 0]
            /\ next_wait_instance_index' = [next_wait_instance_index EXCEPT ![i] = 0]
            /\ next_fini_instance_index' = [next_fini_instance_index EXCEPT ![i] = 0]
            /\ current_init_instance_index' = [current_init_instance_index EXCEPT ![i] = 0]
       ELSE UNCHANGED statics
    /\ heap' = fini_frees_table(heap, next_fini_instance_index[i] >= total_plugin_instances[i])
    /\ loop_i' = [loop_i EXCEPT ![Main] = i + 1]
    /\ pc' = [pc EXCEPT ![Main] = "c_fini"]
    /\ UNCHANGED <<queue_mutex, queue_of, item, got, ret_pc, logvars,
                   process_function, next_place_work, finished, thread_ready,
                   thread_created, plugin_names, queue_size, stdin, lines_read,
                   wait_error, exit_status, init_fault, init_result, monvars, argvars,
                   faultvars, errvars, destroyvars, linevars, callvars, pingvars,
                   forwarded, transformed, discarded>>

MainStep ==
    \/ MainInitPlugin \/ MainWaitReady \/ MainAttach \/ MainReadLine \/ MainPlaced
    \/ MainDrain \/ WaitFinishedEnter \/ WaitFinishedWake
    \/ CleanupWait \/ CleanupWaitRetry \/ CleanupFini
    \/ FiniSignalNotEmpty \/ FiniSignalNotFull \/ FiniJoin \/ FiniDestroy

WorkerStep(i) ==
    \/ WorkerReady(i) \/ WorkerLoop(i) \/ WorkerGot(i)
    \/ WorkerMarkFinished(i) \/ WorkerSignalFinished(i) \/ WorkerFree(i)

PipeThread(t) ==
    \/ t = Main /\ MainStep
    \/ t # Main /\ WorkerStep(t - 1)
    \/ QueueStep(t)

PipeNext ==
    \/ MainStep
    \/ \E i \in 0 .. MaxStages - 1 : WorkerStep(i)
    \/ \E t \in PipeThreads : QueueStep(t)

\* every thread of the process is scheduled fairly by the operating system
PipeSpec ==
    /\ PipeInit
    /\ [][PipeNext]_vars
    /\ \A t \in PipeThreads : WF_vars(PipeThread(t))

(***************************************************************************)
(* The same process on any standard input: streams that reach end of file  *)
(* without a sentinel line, and streams that go on after their first       *)
(* sentinel line, with more records or with a second sentinel.             *)
(***************************************************************************)
Unterminated == UNION {[1 .. m -> Lines] : m \in 0 .. MaxLines}
Continued ==
    {Append(ls, END) \o rest :
        ls \in UNION {[1 .. m -> Lines] : m \in 0 .. MaxLines - 1},
        rest \in {<<>>, <<END>>} \cup {<<l>> : l \in Lines}}
AnyInputs == Unterminated \cup Continued

ReadInit == PipeStart(AnyInputs, FALSE)

ReadNext == PipeNext

ReadSpec ==
    /\ ReadInit
    /\ [][ReadNext]_vars
    /\ \A t \in PipeThreads : WF_vars(PipeThread(t))

(***************************************************************************)
(* One stage driven through its interface, as the tests of                 *)
(* tests/plugin_infra_test.c drive it: common_plugin_init and              *)
(* plugin_attach(mock_next_plugin_place_work) have returned, then the test *)
(* calls plugin_place_work on its test strings, plugin_wait_finished and   *)
(* plugin_fini.  The test thread is Main; test_strings is kept in stdin.   *)
(***************************************************************************)
\* the test strings: any lines, with or without a closing <END>
TestStrings ==
    Inputs \cup UNION {[1 .. m -> Lines] : m \in 0 .. MaxLines}

\* the state when plugin_attach has returned
StageInit ==
    /\ plugin_names \in [1 .. 1 -> PluginNames]
    /\ queue_size \in 1 .. MaxCapacity
    /\ stdin \in TestStrings
    /\ lines_read = <<>>
    /\ QueueInit({0}, queue_size)
    /\ pc = [t \in PipeThreads |->
                IF t = Main THEN "t_loop" ELSE IF t = Worker(0) THEN "w_loop"
                ELSE "not_created"]
    /\ queue_of = [t \in PipeThreads |-> 0]
    /\ item = [t \in PipeThreads |-> NULL]
    /\ got = [t \in PipeThreads |-> NULL]
    /\ ret_pc = [t \in PipeThreads |-> "none"]
    /\ loop_i = [t \in PipeThreads |-> 0]
    /\ process_function = [i \in {0} |-> plugin_names[1]]
    /\ next_place_work = [i \in {0} |-> MockCallback]
    /\ finished = [i \in {0} |-> 0]
    /\ initialized = [i \in {0} |-> 1]
    /\ thread_ready = [i \in {0} |-> 1]
    /\ thread_created = [i \in {0} |-> 1]
    /\ total_plugin_instances = [i \in {0} |-> 1]
    /\ current_init_instance_index = [i \in {0} |-> 0]
    /\ next_wait_instance_index = [i \in {0} |-> 0]
    /\ next_fini_instance_index = [i \in {0} |-> 0]
    /\ wait_error = NULL
    /\ exit_status = 0
    /\ init_fault = NoFault
    /\ init_result = 0
    /\ NoMonitor
    /\ NoArgument
    /\ alloc_failures = 0
    /\ results = [i \in {0} |-> <<>>]
    /\ log_errors = [i \in {0} |-> 0]
    /\ submit_errors = <<>>
    /\ init_errors = <<NULL>>
    /\ NoDestroy /\ NoLines /\ NoCalls /\ NoHeap /\ NoPing
    /\ forwarded = [i \in {0} |-> <<>>]
    /\ transformed = [i \in {0} |-> <<>>]
    /\ discarded = [i \in {0} |-> <<>>]

\* error = plugin_place_work(test_strings[i])
TestPlaceWork ==
    /\ pc[Main] = "t_loop"
    /\ stdin # <<>>
    /\ stdin' = Tail(stdin)
    /\ lines_read' = Append(lines_read, Head(stdin))
    /\ item' = [item EXCEPT ![Main] = Head(stdin)]
    /\ IF PlaceWorkRejects(0)
       THEN /\ submit_errors' = Append(submit_errors, place_work_error(0))
            /\ UNCHANGED <<pc, queue_of, ret_pc>>
       ELSE /\ queue_of' = [queue_of EXCEPT ![Main] = 0]
            /\ ret_pc' = [ret_pc EXCEPT ![Main] = "t_loop"]
            /\ pc' = [pc EXCEPT ![Main] = "put_try"]
            /\ UNCHANGED submit_errors
    /\ UNCHANGED <<bufvars, got, loop_i, logvars, ctxvars, statics, plugin_names,
                   queue_size, wait_error, exit_status, init_fault, argvars, faultvars,
                   log_errors, init_errors, destroyvars, linevars, callvars, heapvars, pingvars, init_result, monvars,
                   forwarded, transformed,
                   discarded>>

\* plugin_wait_finished()
TestWaitFinished ==
    /\ pc[Main] = "t_loop"
    /\ queue_of' = [queue_of EXCEPT ![Main] = 0]
    /\ ret_pc' = [ret_pc EXCEPT ![Main] = "t_waited"]
    /\ pc' = [pc EXCEPT ![Main] = "wf_enter"]
    /\ UNCHANGED <<bufvars, item, got, loop_i, logvars, plugvars>>

\* plugin_fini(), after plugin_wait_finished or without it
TestFini ==
    /\ pc[Main] \in {"t_loop", "t_waited"}
    /\ loop_i' = [loop_i EXCEPT ![Main] = 0]
    /\ pc' = [pc EXCEPT ![Main] = "c_fini"]
    /\ UNCHANGED <<bufvars, queue_of, item, got, ret_pc, logvars, plugvars>>

TestStep ==
    \/ TestPlaceWork \/ TestWaitFinished \/ TestFini
    \/ WaitFinishedEnter \/ WaitFinishedWake
    \/ CleanupFini \/ FiniSignalNotEmpty \/ FiniSignalNotFull \/ FiniJoin \/ FiniDestroy

StageThread(t) ==
    \/ t = Main /\ TestStep
    \/ t = Worker(0) /\ WorkerStep(0)
    \/ QueueStep(t)

\* the worker has signalled ready before common_plugin_init returned
StageNext ==
    \/ TestStep
    \/ WorkerLoop(0) \/ WorkerGot(0) \/ WorkerMarkFinished(0) \/ WorkerSignalFinished(0)
    \/ \E t \in {Main, Worker(0)} : QueueStep(t)

StageSpec ==
    /\ StageInit
    /\ [][StageNext]_vars
    /\ \A t \in {Main, Worker(0)} : WF_vars(StageThread(t))

(***************************************************************************)
(* The error-condition tests of tests/plugin_infra_test.c: one stage       *)
(* driven as above, but its downstream callback is either mock, the one    *)
(* that succeeds or the one that fails, and the allocation inside its      *)
(* transform may fail, which makes the transform return NULL.  Slot 1 of   *)
(* plugin_instances_array is there for a second common_plugin_init.        *)
(***************************************************************************)
TestInstances == {0, 1}

FaultInit ==
    /\ plugin_names \in [1 .. 1 -> PluginNames \cup {InPlaceTransform}]
    /\ queue_size \in 1 .. MaxCapacity
    /\ stdin \in TestStrings
    /\ lines_read = <<>>
    /\ capacity = [q \in TestInstances |-> IF q = 0 THEN queue_size ELSE 0]
    /\ count = [q \in TestInstances |-> 0]
    /\ head = [q \in TestInstances |-> 0]
    /\ tail = [q \in TestInstances |-> 0]
    /\ items = [q \in TestInstances |->
                   IF q = 0 THEN [s \in 0 .. queue_size - 1 |-> NULL] ELSE <<>>]
    /\ queue_mutex = [q \in TestInstances |-> Unlocked]
    /\ not_full = [q \in TestInstances |->
                      IF q = 0 THEN monitor_signal(monitor_init(q)) ELSE 0]
    /\ not_empty = [q \in TestInstances |-> IF q = 0 THEN monitor_init(q) ELSE 0]
    /\ finished_monitor = [q \in TestInstances |-> IF q = 0 THEN monitor_init(q) ELSE 0]
    /\ put_log = [q \in TestInstances |-> <<>>]
    /\ get_log = [q \in TestInstances |-> <<>>]
    /\ pc = [t \in PipeThreads |->
                IF t = Main THEN "t_loop" ELSE IF t = Worker(0) THEN "w_loop"
                ELSE "not_created"]
    /\ queue_of = [t \in PipeThreads |-> 0]
    /\ item = [t \in PipeThreads |-> NULL]
    /\ got = [t \in PipeThreads |-> NULL]
    /\ ret_pc = [t \in PipeThreads |-> "none"]
    /\ loop_i = [t \in PipeThreads |-> 0]
    /\ process_function = [i \in TestInstances |-> plugin_names[1]]
    /\ \E callback \in {MockCallback, FailingCallback} :
           next_place_work = [i \in TestInstances |->
                                 IF i = 0 THEN callback ELSE NoCallback]
    /\ finished = [i \in TestInstances |-> 0]
    /\ initialized = [i \in TestInstances |-> IF i = 0 THEN 1 ELSE 0]
    /\ thread_ready = [i \in TestInstances |-> IF i = 0 THEN 1 ELSE 0]
    /\ thread_created = [i \in TestInstances |-> IF i = 0 THEN 1 ELSE 0]
    /\ total_plugin_instances = [i \in TestInstances |-> IF i = 0 THEN 1 ELSE 0]
    /\ current_init_instance_index = [i \in TestInstances |-> 0]
    /\ next_wait_instance_index = [i \in TestInstances |-> 0]
    /\ next_fini_instance_index = [i \in TestInstances |-> 0]
    /\ wait_error = NULL
    /\ exit_status = 0
    /\ init_fault = NoFault
    /\ init_result = 0
    /\ NoMonitor
    /\ NoArgument
    /\ alloc_failures \in 0 .. MaxAllocFailures
    /\ results = [i \in TestInstances |-> <<>>]
    /\ log_errors = [i \in TestInstances |-> 0]
    /\ submit_errors = <<>>
    /\ init_errors = <<NULL>>
    /\ NoDestroy /\ NoLines /\ NoCalls /\ NoHeap /\ NoPing
    /\ forwarded = [i \in TestInstances |-> <<>>]
    /\ transformed = [i \in TestInstances |-> <<>>]
    /\ discarded = [i \in TestInstances |-> <<>>]

\* max_allowed_plugin_instances = 50
max_allowed_plugin_instances == 50
\* if (total_plugin_instances >= max_allowed_plugin_instances)
\*     return "Maximum plugin instances reached"
init_refuses(total) == total >= max_allowed_plugin_instances

\* error = common_plugin_init(test_uppercase_transform, "test2", 5) while the
\* instance of the first call is registered and nothing has been submitted: up to
\* pthread_create of the worker of the new context
TestInitAgain ==
    LET n == total_plugin_instances[0] IN
    /\ pc[Main] = "t_loop"
    /\ stdin = <<>> /\ lines_read = <<>>
    /\ Len(init_errors) = 1
    /\ IF init_refuses(n)
       THEN /\ init_errors' = Append(init_errors, <<"Maximum plugin instances reached">>)
            /\ UNCHANGED <<capacity, items, not_full, not_empty, finished_monitor,
                           thread_created, process_function, pc, loop_i>>
       ELSE /\ capacity' = [capacity EXCEPT ![n] = queue_size]
            /\ items' = [items EXCEPT ![n] = [s \in 0 .. queue_size - 1 |-> NULL]]
            /\ not_full' = [not_full EXCEPT ![n] = monitor_signal(monitor_init(n))]
            /\ not_empty' = [not_empty EXCEPT ![n] = monitor_init(n)]
            /\ finished_monitor' = [finished_monitor EXCEPT ![n] = monitor_init(n)]
            /\ thread_created' = [thread_created EXCEPT ![n] = 1]
            /\ process_function' = [process_function EXCEPT ![n] = plugin_names[1]]
            /\ loop_i' = [loop_i EXCEPT ![Main] = n]
            /\ pc' = [pc EXCEPT ![Main] = "t_ready", ![Worker(n)] = "w_start"]
            /\ UNCHANGED init_errors
    /\ UNCHANGED <<count, head, tail, queue_mutex, queue_of, item, got, ret_pc, logvars,
                   next_place_work, finished, initialized, thread_ready, statics,
                   plugin_names, queue_size, stdin, lines_read, wait_error, exit_status,
                   init_fault, init_result, monvars, argvars, faultvars, log_errors,
                   submit_errors, destroyvars, linevars, callvars, heapvars, pingvars, forwarded, transformed, discarded>>

\* the rest of that call: while (!thread_ready) pthread_cond_wait(...);
\* initialized = 1; the context is registered; return NULL
TestInitAgainReady ==
    LET n == loop_i[Main] IN
    /\ pc[Main] = "t_ready"
    /\ thread_ready_observed(thread_ready[n])
    /\ initialized' = [initialized EXCEPT ![n] = 1]
    /\ current_init_instance_index' =
           [current_init_instance_index EXCEPT ![0] = total_plugin_instances[0]]
    /\ total_plugin_instances' = [total_plugin_instances EXCEPT ![0] = @ + 1]
    /\ init_errors' = Append(init_errors, NULL)
    /\ loop_i' = [loop_i EXCEPT ![Main] = 0]
    /\ pc' = [pc EXCEPT ![Main] = "t_loop"]
    /\ UNCHANGED <<bufvars, queue_of, item, got, ret_pc, logvars,
                   process_function, next_place_work, finished, thread_ready,
                   thread_created, next_wait_instance_index, next_fini_instance_index,
                   plugin_names, queue_size, stdin, lines_read, wait_error, exit_status,
                   init_fault, init_result, monvars, argvars, faultvars, log_errors,
                   submit_errors, destroyvars, linevars, callvars, heapvars, pingvars, forwarded, transformed, discarded>>

FaultThread(t) ==
    \/ t = Main /\ (TestStep \/ TestInitAgain \/ TestInitAgainReady)
    \/ t = Worker(0) /\ WorkerStep(0)
    \/ t = Worker(1) /\ (WorkerReady(1) \/ WorkerLoop(1))
    \/ QueueStep(t)

FaultNext ==
    \/ TestStep \/ TestInitAgain \/ TestInitAgainReady
    \/ WorkerLoop(0) \/ WorkerGot(0) \/ WorkerMarkFinished(0) \/ WorkerSignalFinished(0)
    \/ WorkerReady(1) \/ WorkerLoop(1)
    \/ \E t \in PipeThreads : QueueStep(t)

FaultSpec ==
    /\ FaultInit
    /\ [][FaultNext]_vars
    /\ \A t \in PipeThreads : WF_vars(FaultThread(t))

(***************************************************************************)
(* consumer_producer_destroy, step by step, against the calls the queue    *)
(* tests make before and after it (test_memory_management,                 *)
(* test_error_conditions: puts, a get, destroy, destroy again, put and get *)
(* on the destroyed queue) and against one other thread that calls         *)
(* consumer_producer_put at any moment.                                    *)
(*                                                                         *)
(* Using a mutex or a condition variable after it was destroyed, and       *)
(* destroying a condition variable a thread is blocked on, are undefined:  *)
(* strict_pthreads says which of the two behaviours found in practice the  *)
(* build has.  A strict library fails the lock of a destroyed mutex, so    *)
(* that monitor_wait returns -1, and keeps pthread_cond_destroy waiting    *)
(* for the threads blocked on the condition; a lax one treats the          *)
(* destroyed objects as live ones.                                         *)
(***************************************************************************)
Putter == 1
DestroyThreads == {Main, Putter}
MonitorNames == {"not_full", "not_empty", "finished"}

\* if (NULL == queue->items) return "Queue items array is not initialized"
PutEnter(t) ==
    LET q == queue_of[t] IN
    /\ pc[t] = "put_enter"
    /\ IF items[q] = <<>>
       THEN /\ put_error' = [put_error EXCEPT ![t] = <<"Queue items array is not initialized">>]
            /\ pc' = [pc EXCEPT ![t] = ret_pc[t]]
       ELSE /\ pc' = [pc EXCEPT ![t] = "put_try"]
            /\ UNCHANGED put_error
    /\ UNCHANGED <<bufvars, queue_of, item, got, ret_pc, loop_i, logvars, ctxvars,
                   statics, plugin_names, queue_size, stdin, lines_read, wait_error,
                   exit_status, init_fault, init_result, monvars, argvars, faultvars,
                   errvars, linevars, callvars, heapvars, pingvars,
                   mutex_initialized, monitor_destroyed, freed, destroy_calls,
                   blocked_at_destroy, strict_pthreads, forwarded, transformed,
                   discarded>>

\* if (NULL == queue->items) return NULL
GetEnter(t) ==
    LET q == queue_of[t] IN
    /\ pc[t] = "get_enter"
    /\ IF items[q] = <<>>
       THEN /\ got' = [got EXCEPT ![t] = NULL]
            /\ pc' = [pc EXCEPT ![t] = ret_pc[t]]
       ELSE /\ pc' = [pc EXCEPT ![t] = "get_try"]
            /\ UNCHANGED got
    /\ UNCHANGED <<bufvars, queue_of, item, ret_pc, loop_i, logvars, plugvars>>

\* if (0 != monitor_wait(&queue->not_full_monitor))
\*     return "Failed to wait for not_full condition":
\* pthread_mutex_lock of the destroyed monitor mutex fails in monitor_wait
PutWaitFails(t) ==
    LET q == queue_of[t] IN
    /\ pc[t] = "put_wait"
    /\ strict_pthreads
    /\ "not_full" \in monitor_destroyed[q]
    /\ put_error' = [put_error EXCEPT ![t] = <<"Failed to wait for not_full condition">>]
    /\ pc' = [pc EXCEPT ![t] = ret_pc[t]]
    /\ UNCHANGED <<bufvars, queue_of, item, got, ret_pc, loop_i, logvars, ctxvars,
                   statics, plugin_names, queue_size, stdin, lines_read, wait_error,
                   exit_status, init_fault, init_result, monvars, argvars, faultvars,
                   errvars, linevars, callvars, heapvars, pingvars,
                   mutex_initialized, monitor_destroyed, freed, destroy_calls,
                   blocked_at_destroy, strict_pthreads, forwarded, transformed,
                   discarded>>

\* the test thread calls consumer_producer_put; it never puts into a full queue
DriverPut ==
    /\ pc[Main] = "d_loop"
    /\ loop_i[Main] < MaxDriverOps
    /\ destroy_calls >= 1 \/ count[0] < capacity[0]
    /\ item' = [item EXCEPT ![Main] = ProducerItem(Main, loop_i[Main])]
    /\ loop_i' = [loop_i EXCEPT ![Main] = @ + 1]
    /\ ret_pc' = [ret_pc EXCEPT ![Main] = "d_loop"]
    /\ pc' = [pc EXCEPT ![Main] = "put_enter"]
    /\ UNCHANGED <<bufvars, queue_of, got, logvars, plugvars>>

\* the test thread calls consumer_producer_get; it never gets from an empty queue
DriverGet ==
    /\ pc[Main] = "d_loop"
    /\ loop_i[Main] < MaxDriverOps
    /\ destroy_calls >= 1 \/ (count[0] > 0 /\ get_log[0] = <<>>)
    /\ loop_i' = [loop_i EXCEPT ![Main] = @ + 1]
    /\ ret_pc' = [ret_pc EXCEPT ![Main] = "d_loop"]
    /\ pc' = [pc EXCEPT ![Main] = "get_enter"]
    /\ UNCHANGED <<bufvars, queue_of, item, got, logvars, plugvars>>

\* the other thread calls consumer_producer_put once
PutterCall ==
    /\ pc[Putter] = "p_idle"
    /\ item' = [item EXCEPT ![Putter] = ProducerItem(Putter, 0)]
    /\ ret_pc' = [ret_pc EXCEPT ![Putter] = "p_done"]
    /\ pc' = [pc EXCEPT ![Putter] = "put_enter"]
    /\ UNCHANGED <<bufvars, queue_of, got, loop_i, logvars, plugvars>>

\* a thread that is inside pthread_cond_wait of the monitor named m of queue q
ParkedOn(q, m) ==
    {t \in DestroyThreads :
        /\ queue_of[t] = q
        /\ \/ m = "not_full" /\ pc[t] = "put_parked"
           \/ m = "not_empty" /\ pc[t] = "get_parked"}

\* the signaled flag of the monitor named m of queue 0 becomes value
SetSignaled(m, value) ==
    /\ not_full' = IF m = "not_full" THEN [not_full EXCEPT ![0] = value] ELSE not_full
    /\ not_empty' = IF m = "not_empty" THEN [not_empty EXCEPT ![0] = value] ELSE not_empty
    /\ finished_monitor' = IF m = "finished"
                           THEN [finished_monitor EXCEPT ![0] = value]
                           ELSE finished_monitor

\* a destroy that leaves the held records alone
destroy_frees_nothing(slots) == <<>>
\* for (i = 0; i < capacity; i++) if (NULL != items[i]) free(items[i]): the records
\* released, in slot order
RECURSIVE destroy_frees(_)
destroy_frees(slots) ==
    IF slots = <<>> THEN <<>>
    ELSE IF Head(slots) = NULL THEN destroy_frees(Tail(slots))
    ELSE <<Head(slots)>> \o destroy_frees(Tail(slots))

\* the slot array as a sequence, slot 0 first
SlotSeq(q) == [k \in 1 .. capacity[q] |-> items[q][k - 1]]

\* consumer_producer_destroy is called
DriverDestroy ==
    /\ pc[Main] = "d_loop"
    /\ loop_i[Main] < MaxDriverOps
    /\ destroy_calls < MaxDestroyCalls
    /\ loop_i' = [loop_i EXCEPT ![Main] = @ + 1]
    /\ blocked_at_destroy' =
           IF destroy_calls = 0 /\ not_full[0] = 0 /\ count[0] = capacity[0]
           THEN ParkedOn(0, "not_full") ELSE blocked_at_destroy
    /\ pc' = [pc EXCEPT ![Main] = "d_free"]
    /\ UNCHANGED <<bufvars, queue_of, item, got, ret_pc, logvars, ctxvars,
                   statics, plugin_names, queue_size, stdin, lines_read, wait_error,
                   exit_status, init_fault, init_result, monvars, argvars, faultvars,
                   errvars, linevars, callvars, heapvars, pingvars,
                   mutex_initialized, monitor_destroyed, freed, destroy_calls,
                   put_error, strict_pthreads, forwarded, transformed, discarded>>

\* if (mutex_initialized) lock; if (NULL != items) { free every record; free(items);
\* items = NULL; } if (mutex_initialized) unlock
DestroyFree ==
    /\ pc[Main] = "d_free"
    /\ mutex_initialized[0] = 1 => pthread_mutex_lock(0)
    /\ IF items[0] # <<>>
       THEN /\ freed' = freed \o destroy_frees(SlotSeq(0))
            /\ items' = [items EXCEPT ![0] = <<>>]
       ELSE UNCHANGED <<freed, items>>
    /\ pc' = [pc EXCEPT ![Main] = "d_signal_not_full"]
    /\ UNCHANGED <<capacity, count, head, tail, queue_mutex, not_full, not_empty,
                   finished_monitor, queue_of, item, got, ret_pc, loop_i, logvars,
                   ctxvars, statics, plugin_names, queue_size, stdin, lines_read,
                   wait_error, exit_status, init_fault, init_result, monvars, argvars,
                   faultvars, errvars, linevars, callvars, heapvars, pingvars,
                   mutex_initialized, monitor_destroyed,
                   destroy_calls, put_error, blocked_at_destroy, strict_pthreads,
                   forwarded, transformed, discarded>>

\* monitor_destroy, first half: lock; signaled = 1; broadcast; unlock; usleep(1000)
DestroySignal(m) ==
    /\ pc[Main] = "d_signal_" \o m
    /\ SetSignaled(m, 1)
    /\ pc' = [pc EXCEPT ![Main] = "d_destroy_" \o m]
    /\ UNCHANGED <<capacity, count, head, tail, items, queue_mutex, queue_of, item, got,
                   ret_pc, loop_i, logvars, plugvars>>

\* what consumer_producer_destroy does after monitor_destroy of the monitor named m
AfterMonitor(m) ==
    CASE m = "not_full" -> "d_signal_not_empty"
      [] m = "not_empty" -> "d_signal_finished"
      [] m = "finished" -> "d_mutex"

\* monitor_destroy, second half: pthread_mutex_destroy; pthread_cond_destroy;
\* signaled = 0
DestroyMonitor(m) ==
    /\ pc[Main] = "d_destroy_" \o m
    /\ IF strict_pthreads /\ ParkedOn(0, m) # {} /\ m \notin monitor_destroyed[0]
       THEN /\ pc' = [pc EXCEPT ![Main] = "d_hung"]
            /\ UNCHANGED <<not_full, not_empty, finished_monitor, monitor_destroyed>>
       ELSE /\ SetSignaled(m, 0)
            /\ monitor_destroyed' = [monitor_destroyed EXCEPT ![0] = @ \cup {m}]
            /\ pc' = [pc EXCEPT ![Main] = AfterMonitor(m)]
    /\ UNCHANGED <<capacity, count, head, tail, items, queue_mutex, queue_of, item, got,
                   ret_pc, loop_i, logvars, ctxvars,
                   statics, plugin_names, queue_size, stdin, lines_read, wait_error,
                   exit_status, init_fault, init_result, monvars, argvars, faultvars,
                   errvars, linevars, callvars, heapvars, pingvars,
                   mutex_initialized, freed, destroy_calls, put_error,
                   blocked_at_destroy, strict_pthreads, forwarded, transformed,
                   discarded>>

\* if (mutex_initialized) { pthread_mutex_destroy(&queue_mutex); mutex_initialized = 0; }
DestroyMutex ==
    /\ pc[Main] = "d_mutex"
    /\ mutex_initialized' = [mutex_initialized EXCEPT ![0] = 0]
    /\ pc' = [pc EXCEPT ![Main] = "d_reset"]
    /\ UNCHANGED <<bufvars, queue_of, item, got, ret_pc, loop_i, logvars, ctxvars,
                   statics, plugin_names, queue_size, stdin, lines_read, wait_error,
                   exit_status, init_fault, init_result, monvars, argvars, faultvars,
                   errvars, linevars, callvars, heapvars, pingvars, monitor_destroyed, freed, destroy_calls, put_error,
                   blocked_at_destroy, strict_pthreads, forwarded, transformed,
                   discarded>>

\* capacity = 0; count = 0; head = 0; tail = 0; return
DestroyReset ==
    /\ pc[Main] = "d_reset"
    /\ capacity' = [capacity EXCEPT ![0] = 0]
    /\ count' = [count EXCEPT ![0] = 0]
    /\ head' = [head EXCEPT ![0] = 0]
    /\ tail' = [tail EXCEPT ![0] = 0]
    /\ destroy_calls' = destroy_calls + 1
    /\ pc' = [pc EXCEPT ![Main] = "d_loop"]
    /\ UNCHANGED <<items, queue_mutex, not_full, not_empty, finished_monitor,
                   queue_of, item, got, ret_pc, loop_i, logvars, ctxvars,
                   statics, plugin_names, queue_size, stdin, lines_read, wait_error,
                   exit_status, init_fault, init_result, monvars, argvars, faultvars,
                   errvars, linevars, callvars, heapvars, pingvars,
                   mutex_initialized, monitor_destroyed, freed, put_error,
                   blocked_at_destroy, strict_pthreads, forwarded, transformed,
                   discarded>>

\* memset(&queue, 0, sizeof(consumer_producer_t)); consumer_producer_init(&queue, cap)
DestroyInit ==
    /\ \E cap \in 1 .. MaxCapacity : QueueInit({0}, cap)
    /\ NoPlugins /\ NoMonitor /\ NoArgument /\ NoFaults /\ NoLines /\ NoCalls /\ NoHeap /\ NoPing
    /\ pc = [t \in DestroyThreads |-> IF t = Main THEN "d_loop" ELSE "p_idle"]
    /\ queue_of = [t \in DestroyThreads |-> 0]
    /\ item = [t \in DestroyThreads |-> NULL]
    /\ got = [t \in DestroyThreads |-> NULL]
    /\ ret_pc = [t \in DestroyThreads |-> "none"]
    /\ loop_i = [t \in DestroyThreads |-> 0]
    /\ mutex_initialized = [q \in {0} |-> 1]
    /\ monitor_destroyed = [q \in {0} |-> {}]
    /\ freed = <<>>
    /\ destroy_calls = 0
    /\ put_error = [t \in DestroyThreads |-> NULL]
    /\ blocked_at_destroy = {}
    /\ strict_pthreads \in BOOLEAN

DriverStep ==
    \/ DriverPut \/ DriverGet \/ DriverDestroy \/ DestroyFree
    \/ (\E m \in MonitorNames : DestroySignal(m))
    \/ (\E m \in MonitorNames : DestroyMonitor(m))
    \/ DestroyMutex \/ DestroyReset

\* one step of a put in progress in thread t, or of a get that finds a record
DestroyQueueStep(t) ==
    \/ PutEnter(t) \/ PutTry(t) \/ PutTail(t) \/ PutCount(t) \/ PutSignal(t)
    \/ PutReset(t) \/ PutWait(t) \/ PutWaitFails(t) \/ PutWake(t)
    \/ GetEnter(t) \/ GetTry(t) \/ GetHead(t) \/ GetCount(t) \/ GetSignal(t)

DestroyThread(t) ==
    \/ t = Main /\ DriverStep
    \/ t = Putter /\ PutterCall
    \/ DestroyQueueStep(t)

DestroyNext ==
    \/ DriverPut \/ DriverGet \/ DriverDestroy \/ DestroyFree
    \/ (\E m \in MonitorNames : DestroySignal(m))
    \/ (\E m \in MonitorNames : DestroyMonitor(m))
    \/ DestroyMutex \/ DestroyReset
    \/ PutterCall
    \/ (\E t \in DestroyThreads : DestroyQueueStep(t))

\* every thread of the process is scheduled fairly by the operating system
DestroySpec ==
    /\ DestroyInit
    /\ [][DestroyNext]_vars
    /\ \A t \in DestroyThreads : WF_vars(DestroyThread(t))

(***************************************************************************)
(* read_input_and_process, byte by byte: standard input is a sequence of   *)
(* characters, fgets fills input_line_buffer, which has                    *)
(* Max_line_length bytes, the trailing newline is replaced by the          *)
(* terminator and the buffer is submitted to stage 0.  Stage 0 accepts     *)
(* every record; lines_read is what it was handed.                         *)
(***************************************************************************)
Max_line_length == 1024
NewLine == "\n"

\* a line of n characters, none of them a newline
Fill(n) == [k \in 1 .. n |-> "a"]
\* the lengths of the input lines: empty, short, and around the size of the buffer
LineLengths ==
    {0, 1, Max_line_length - 2, Max_line_length - 1, Max_line_length,
     2 * Max_line_length}
InputLines == {Fill(n) : n \in LineLengths} \cup {END}

RECURSIVE Joined(_)
\* the bytes of a file that holds the given lines, each ended by a newline
Joined(lines) ==
    IF lines = <<>> THEN <<>>
    ELSE Head(lines) \o <<NewLine>> \o Joined(Tail(lines))

\* the files on standard input: up to MaxLines lines; the last line may lack its
\* newline
ByteStreams ==
    LET files == UNION {[1 .. m -> InputLines] : m \in 0 .. MaxLines}
    IN {Joined(f) : f \in files}
       \cup {SubSeq(Joined(f), 1, Len(Joined(f)) - 1) : f \in files \ {<<>>}}

\* fgets(buffer, size, stdin): the number of bytes it takes from the stream: up to
\* and including the first newline, and at most size - 1
fgets(stream, size) ==
    LET limit == IF Len(stream) < size - 1 THEN Len(stream) ELSE size - 1 IN
    IF \E k \in 1 .. limit : stream[k] = NewLine
    THEN CHOOSE k \in 1 .. limit :
             /\ stream[k] = NewLine
             /\ \A j \in 1 .. k - 1 : stream[j] # NewLine
    ELSE limit

\* if (line_len > 0 && buffer[line_len - 1] == '\n') buffer[line_len - 1] = '\0'
strip_newline(buffer) ==
    IF Len(buffer) > 0 /\ buffer[Len(buffer)] = NewLine
    THEN SubSeq(buffer, 1, Len(buffer) - 1)
    ELSE buffer

\* while (NULL != fgets(input_line_buffer, sizeof(input_line_buffer), stdin)),
\* and the removal of the newline
LineRead ==
    /\ pc[Main] = "l_read"
    /\ IF stdin = <<>>
       THEN /\ pc' = [pc EXCEPT ![Main] = "done"]
            /\ UNCHANGED <<stdin, consumed, item>>
       ELSE LET n == fgets(stdin, Max_line_length) IN
            /\ item' = [item EXCEPT ![Main] = strip_newline(SubSeq(stdin, 1, n))]
            /\ consumed' = consumed \o SubSeq(stdin, 1, n)
            /\ stdin' = SubSeq(stdin, n + 1, Len(stdin))
            /\ pc' = [pc EXCEPT ![Main] = "l_place"]
    /\ UNCHANGED <<bufvars, queue_of, got, ret_pc, loop_i, logvars, ctxvars, statics,
                   plugin_names, queue_size, lines_read, wait_error, exit_status,
                   init_fault, init_result, monvars, argvars, faultvars, errvars,
                   destroyvars, callvars, heapvars, pingvars, forwarded, transformed, discarded>>

\* place_work(input_line_buffer); if (0 == strcmp(input_line_buffer, "<END>")) break
LinePlace ==
    /\ pc[Main] = "l_place"
    /\ lines_read' = Append(lines_read, item[Main])
    /\ pc' = [pc EXCEPT ![Main] = IF is_end_signal(item[Main]) THEN "done" ELSE "l_read"]
    /\ UNCHANGED <<bufvars, queue_of, item, got, ret_pc, loop_i, logvars, ctxvars,
                   statics, plugin_names, queue_size, stdin, wait_error, exit_status,
                   init_fault, init_result, monvars, auxvars, forwarded, transformed,
                   discarded>>

LineInit ==
    /\ QueueInit({}, 0)
    /\ NoMonitor /\ NoArgument /\ NoFaults /\ NoDestroy
    /\ process_function = <<>> /\ next_place_work = <<>> /\ finished = <<>>
    /\ initialized = <<>> /\ thread_ready = <<>> /\ thread_created = <<>>
    /\ total_plugin_instances = <<>> /\ next_wait_instance_index = <<>>
    /\ next_fini_instance_index = <<>>
    /\ current_init_instance_index = <<>>
    /\ plugin_names = <<>> /\ queue_size = 0 /\ lines_read = <<>>
    /\ wait_error = NULL /\ exit_status = 0
    /\ init_fault = NoFault /\ init_result = 0
    /\ forwarded = <<>> /\ transformed = <<>> /\ discarded = <<>>
    /\ pc = [t \in {Main} |-> "l_read"]
    /\ queue_of = [t \in {Main} |-> 0]
    /\ item = [t \in {Main} |-> NULL]
    /\ got = [t \in {Main} |-> NULL]
    /\ ret_pc = [t \in {Main} |-> "none"]
    /\ loop_i = [t \in {Main} |-> 0]
    /\ consumed = <<>>
    /\ NoCalls /\ NoHeap /\ NoPing
    /\ stdin \in ByteStreams

LineNext == LineRead \/ LinePlace

LineSpec == LineInit /\ [][LineNext]_vars

(***************************************************************************)
(* The monitor tests: threads that signal, reset and wait on one monitor   *)
(* (tests/monitor_prod_cons_test.c, tests/monitor_comprehensive_test.c).   *)
(* Every function of monitor.c runs under the mutex of the monitor, so it  *)
(* is one step; a thread inside pthread_cond_wait is parked, and leaves    *)
(* the loop "while (0 == monitor->signaled)" in a step in which it holds   *)
(* the mutex and finds the flag set.                                       *)
(***************************************************************************)
MonThreads == 1 .. NumMonThreads

\* the test thread calls its next monitor function, or ends
MonCall(t) ==
    /\ pc[t] = "mon_next"
    /\ IF loop_i[t] < OpsPerThread
       THEN /\ \E op \in {"mon_signal", "mon_reset", "mon_wait"} :
                   pc' = [pc EXCEPT ![t] = op]
            /\ loop_i' = [loop_i EXCEPT ![t] = @ + 1]
       ELSE /\ pc' = [pc EXCEPT ![t] = "done"]
            /\ UNCHANGED loop_i
    /\ UNCHANGED <<bufvars, queue_of, item, got, ret_pc, logvars, plugvars>>

\* monitor_signal: signaled = 1; pthread_cond_broadcast
MonSignal(t) ==
    /\ pc[t] = "mon_signal"
    /\ test_monitor' = monitor_signal(test_monitor)
    /\ released' = released \cup {u \in MonThreads : pc[u] = "mon_parked"}
    /\ pc' = [pc EXCEPT ![t] = "mon_next"]
    /\ UNCHANGED <<bufvars, queue_of, item, got, ret_pc, loop_i, logvars, ctxvars,
                   statics, plugin_names, queue_size, stdin, lines_read, wait_error,
                   exit_status, init_fault, auxvars, init_result, wait_result, forwarded,
                   transformed, discarded>>

\* monitor_reset: signaled = 0
MonReset(t) ==
    /\ pc[t] = "mon_reset"
    /\ test_monitor' = monitor_reset(test_monitor)
    /\ pc' = [pc EXCEPT ![t] = "mon_next"]
    /\ UNCHANGED <<bufvars, queue_of, item, got, ret_pc, loop_i, logvars, ctxvars,
                   statics, plugin_names, queue_size, stdin, lines_read, wait_error,
                   exit_status, init_fault, auxvars, init_result, wait_result, released,
                   forwarded, transformed, discarded>>

\* monitor_wait: if (1 == signaled) return 0; else pthread_cond_wait
MonWait(t) ==
    /\ pc[t] = "mon_wait"
    /\ IF monitor_wait_passes(test_monitor)
       THEN /\ pc' = [pc EXCEPT ![t] = "mon_next"]
            /\ wait_result' = [wait_result EXCEPT ![t] = "immediate"]
            /\ test_monitor' = monitor_wait(test_monitor)
       ELSE /\ pc' = [pc EXCEPT ![t] = "mon_parked"]
            /\ UNCHANGED <<wait_result, test_monitor>>
    /\ UNCHANGED <<bufvars, queue_of, item, got, ret_pc, loop_i, logvars, ctxvars,
                   statics, plugin_names, queue_size, stdin, lines_read, wait_error,
                   exit_status, init_fault, auxvars, init_result, released, forwarded,
                   transformed, discarded>>

\* the waiter holds the mutex again and finds the flag set: return 0
MonWake(t) ==
    /\ pc[t] = "mon_parked"
    /\ monitor_wait_passes(test_monitor)
    /\ pc' = [pc EXCEPT ![t] = "mon_next"]
    /\ wait_result' = [wait_result EXCEPT ![t] = "woken"]
    /\ released' = released \ {t}
    /\ test_monitor' = monitor_wait(test_monitor)
    /\ UNCHANGED <<bufvars, queue_of, item, got, ret_pc, loop_i, logvars, ctxvars,
                   statics, plugin_names, queue_size, stdin, lines_read, wait_error,
                   exit_status, init_fault, auxvars, init_result, forwarded, transformed,
                   discarded>>

MonInit ==
    /\ QueueInit({}, 0)
    /\ NoPlugins
    /\ NoAux
    /\ pc = [t \in MonThreads |-> "mon_next"]
    /\ queue_of = [t \in MonThreads |-> 0]
    /\ item = [t \in MonThreads |-> NULL]
    /\ got = [t \in MonThreads |-> NULL]
    /\ ret_pc = [t \in MonThreads |-> "none"]
    /\ loop_i = [t \in MonThreads |-> 0]
    /\ test_monitor = monitor_init(0)
    /\ wait_result = [t \in MonThreads |-> "none"]
    /\ released = {}

MonThread(t) == MonCall(t) \/ MonSignal(t) \/ MonReset(t) \/ MonWait(t) \/ MonWake(t)

MonNext == \E t \in MonThreads : MonThread(t)

\* the threads of the tests are scheduled fairly by the operating system
MonSpec ==
    /\ MonInit
    /\ [][MonNext]_vars
    /\ \A t \in MonThreads : WF_vars(MonThread(t))

(***************************************************************************)
(* main.c: parse_queue_size_arg.  The argument is a C string; the          *)
(* accumulator is a long, kept here as its decimal digits without leading  *)
(* zeros (<<>> is zero) because it outgrows the integers of the checker.   *)
(***************************************************************************)
MAX_FILE_NAME_LENGTH == 256
\* LONG_MAX of a 64-bit long
LONG_MAX == <<9, 2, 2, 3, 3, 7, 2, 0, 3, 6, 8, 5, 4, 7, 7, 5, 8, 0, 7>>
\* the upper end of the accepted range, 1000000
QueueSizeLimit == <<1, 0, 0, 0, 0, 0, 0>>
\* any negative long
Negative == <<-1>>

\* current_char < '0' || current_char > '9' is false
IsDigit(c) == \E k \in 1 .. 10 : DigitChar[k] = c
\* current_char - '0'
DigitValue(c) == (CHOOSE k \in 1 .. 10 : DigitChar[k] = c) - 1
\* a > b for non-negative numbers given by their digits
Greater(a, b) ==
    \/ Len(a) > Len(b)
    \/ /\ Len(a) = Len(b)
       /\ \E k \in 1 .. Len(a) : a[k] > b[k] /\ \A j \in 1 .. k - 1 : a[j] = b[j]
\* parse_result * 10 + digit, in unbounded arithmetic
TimesTenPlus(acc, digit) == IF acc = <<>> /\ digit = 0 THEN <<>> ELSE Append(acc, digit)
\* what a signed overflow of the accumulator can leave in it: the behaviour is
\* undefined, and a build that wraps around produces, depending on the digits that
\* follow, a negative value, a value in the accepted range or a larger one
SignedOverflow == {Negative, <<5>>, QueueSizeLimit, Append(QueueSizeLimit, 0)}
\* parse_result = parse_result * 10 + digit in a long
next_parse_result(acc, digit) ==
    IF Greater(TimesTenPlus(acc, digit), LONG_MAX)
    THEN SignedOverflow
    ELSE {TimesTenPlus(acc, digit)}
\* parse_result <= 0 || parse_result > 1000000
OutOfRange(acc) == acc = <<>> \/ acc = Negative \/ Greater(acc, QueueSizeLimit)
RECURSIVE ToInt(_)
\* (int)parse_result of a value in range
ToInt(acc) == IF acc = <<>> THEN 0
              ELSE 10 * ToInt(SubSeq(acc, 1, Len(acc) - 1)) + acc[Len(acc)]

\* the arguments tried: every short string, strings around the length limit, values
\* around the range limit and one beyond the range of a long (2^64 + 5)
ArgChars == {"0", "1", "7", "9", "x", "-"}
Zeros(n) == [k \in 1 .. n |-> "0"]
ArgStrings ==
    UNION {[1 .. n -> ArgChars] : n \in 0 .. MaxArgLen}
    \cup {Zeros(n) \o t : n \in MAX_FILE_NAME_LENGTH - 2 .. MAX_FILE_NAME_LENGTH,
                          t \in {<<"7">>, <<"7", "x">>, <<"x">>, <<"7", "7">>}}
    \cup {<<"9", "9", "9", "9", "9", "9">>,
          <<"1", "0", "0", "0", "0", "0", "0">>,
          <<"1", "0", "0", "0", "0", "0", "1">>,
          <<"0", "0", "0", "1", "0", "0", "0", "0", "0", "0">>,
          <<"1", "8", "4", "4", "6", "7", "4", "4", "0", "7", "3", "7", "0", "9", "5", "5", "1", "6", "2", "1">>,
          NULL}

\* if (NULL == argument_string) return -1; if (argument_string[0] == '\0') return -1
ParseEnter ==
    /\ pc[Main] = "parse_enter"
    /\ IF argument_string = NULL \/ argument_string = <<>>
       THEN /\ parse_return' = -1
            /\ pc' = [pc EXCEPT ![Main] = "done"]
            /\ UNCHANGED <<parse_result, loop_i>>
       ELSE /\ parse_result' = <<>>
            /\ loop_i' = [loop_i EXCEPT ![Main] = 0]
            /\ pc' = [pc EXCEPT ![Main] = "parse_loop"]
            /\ UNCHANGED parse_return
    /\ UNCHANGED <<bufvars, queue_of, item, got, ret_pc, logvars, ctxvars, statics,
                   plugin_names, queue_size, stdin, lines_read, wait_error, exit_status,
                   init_fault, init_result, monvars, argument_string, forwarded,
                   transformed, discarded, faultvars, errvars,
                   destroyvars, linevars, callvars, heapvars, pingvars>>

\* one round of while (argument_string[i] != '\0' && i < MAX_FILE_NAME_LENGTH)
ParseChar ==
    LET i == loop_i[Main] IN
    /\ pc[Main] = "parse_loop"
    /\ IF i < Len(argument_string) /\ i < MAX_FILE_NAME_LENGTH
       THEN LET current_char == argument_string[i + 1] IN
            IF ~IsDigit(current_char)
            THEN /\ parse_return' = -1
                 /\ pc' = [pc EXCEPT ![Main] = "done"]
                 /\ UNCHANGED <<parse_result, loop_i>>
            ELSE /\ parse_result' \in next_parse_result(parse_result,
                                                        DigitValue(current_char))
                 /\ loop_i' = [loop_i EXCEPT ![Main] = i + 1]
                 /\ UNCHANGED <<pc, parse_return>>
       ELSE /\ pc' = [pc EXCEPT ![Main] = "parse_range"]
            /\ UNCHANGED <<parse_result, parse_return, loop_i>>
    /\ UNCHANGED <<bufvars, queue_of, item, got, ret_pc, logvars, ctxvars, statics,
                   plugin_names, queue_size, stdin, lines_read, wait_error, exit_status,
                   init_fault, init_result, monvars, argument_string, forwarded,
                   transformed, discarded, faultvars, errvars,
                   destroyvars, linevars, callvars, heapvars, pingvars>>

\* if (parse_result <= 0 || parse_result > 1000000) return -1; return (int)parse_result
ParseRange ==
    /\ pc[Main] = "parse_range"
    /\ parse_return' = IF OutOfRange(parse_result) THEN -1 ELSE ToInt(parse_result)
    /\ pc' = [pc EXCEPT ![Main] = "done"]
    /\ UNCHANGED <<bufvars, queue_of, item, got, ret_pc, loop_i, logvars, ctxvars,
                   statics, plugin_names, queue_size, stdin, lines_read, wait_error,
                   exit_status, init_fault, init_result, monvars, argument_string,
                   parse_result, forwarded, transformed, discarded, faultvars,
                   errvars, destroyvars, linevars, callvars, heapvars, pingvars>>

ArgInit ==
    /\ QueueInit({}, 0)
    /\ NoPlugins /\ NoMonitor /\ NoFaults /\ NoDestroy /\ NoLines /\ NoCalls /\ NoHeap /\ NoPing
    /\ pc = [t \in {Main} |-> "parse_enter"]
    /\ queue_of = [t \in {Main} |-> 0]
    /\ item = [t \in {Main} |-> NULL]
    /\ got = [t \in {Main} |-> NULL]
    /\ ret_pc = [t \in {Main} |-> "none"]
    /\ loop_i = [t \in {Main} |-> 0]
    /\ argument_string \in ArgStrings
    /\ parse_result = <<>>
    /\ parse_return = 0

ArgNext == ParseEnter \/ ParseChar \/ ParseRange

ArgSpec == ArgInit /\ [][ArgNext]_vars

(***************************************************************************)
(* The finished event of one buffer under concurrent use: every thread     *)
(* makes FinOps calls, each of them a put, a get, a signal_finished or a   *)
(* wait_finished (test_finished_signaling, test_queue_basic_functionality). *)
(***************************************************************************)
FinThreads == 0 .. NumFinThreads - 1

\* consumer_producer_put(&queue, item)
FinPut(t) ==
    /\ pc[t] = "fin_loop"
    /\ loop_i[t] < FinOps
    /\ item' = [item EXCEPT ![t] = ProducerItem(t, loop_i[t])]
    /\ loop_i' = [loop_i EXCEPT ![t] = @ + 1]
    /\ pc' = [pc EXCEPT ![t] = "put_try"]
    /\ UNCHANGED <<bufvars, queue_of, got, ret_pc, logvars, plugvars>>

\* item = consumer_producer_get(&queue)
FinGet(t) ==
    /\ pc[t] = "fin_loop"
    /\ loop_i[t] < FinOps
    /\ loop_i' = [loop_i EXCEPT ![t] = @ + 1]
    /\ pc' = [pc EXCEPT ![t] = "get_try"]
    /\ UNCHANGED <<bufvars, queue_of, item, got, ret_pc, logvars, plugvars>>

\* consumer_producer_signal_finished: monitor_signal(&queue->finished_monitor)
FinSignalFinished(t) ==
    /\ pc[t] = "fin_loop"
    /\ loop_i[t] < FinOps
    /\ loop_i' = [loop_i EXCEPT ![t] = @ + 1]
    /\ finished_monitor' = [finished_monitor EXCEPT ![0] = monitor_signal(@)]
    /\ UNCHANGED <<capacity, count, head, tail, items, queue_mutex, not_full,
                   not_empty, pc, queue_of, item, got, ret_pc, logvars, plugvars>>

\* consumer_producer_wait_finished is called
FinWaitCall(t) ==
    /\ pc[t] = "fin_loop"
    /\ loop_i[t] < FinOps
    /\ loop_i' = [loop_i EXCEPT ![t] = @ + 1]
    /\ pc' = [pc EXCEPT ![t] = "fw_enter"]
    /\ UNCHANGED <<bufvars, queue_of, item, got, ret_pc, logvars, plugvars>>

\* monitor_wait(&queue->finished_monitor): lock; if (signaled) { unlock; return 0; }
\* otherwise pthread_cond_wait
FinWaitFinished(t) ==
    /\ pc[t] = "fw_enter"
    /\ IF monitor_wait_passes(finished_monitor[0])
       THEN /\ pc' = [pc EXCEPT ![t] = "fin_loop"]
            /\ wait_result' = [wait_result EXCEPT ![t] = "immediate"]
            /\ finished_monitor' = [finished_monitor EXCEPT ![0] = monitor_wait(@)]
       ELSE /\ pc' = [pc EXCEPT ![t] = "fw_parked"]
            /\ UNCHANGED <<wait_result, finished_monitor>>
    /\ UNCHANGED <<capacity, count, head, tail, items, queue_mutex, not_full,
                   not_empty, queue_of, item, got, ret_pc, loop_i, logvars, ctxvars,
                   statics, plugin_names, queue_size, stdin, lines_read, wait_error,
                   exit_status, init_fault, auxvars, init_result, test_monitor,
                   released, forwarded, transformed, discarded>>

\* pthread_cond_wait returns and the loop finds the flag set: unlock; return 0
FinWaitWake(t) ==
    /\ pc[t] = "fw_parked"
    /\ monitor_wait_passes(finished_monitor[0])
    /\ pc' = [pc EXCEPT ![t] = "fin_loop"]
    /\ wait_result' = [wait_result EXCEPT ![t] = "woken"]
    /\ finished_monitor' = [finished_monitor EXCEPT ![0] = monitor_wait(@)]
    /\ UNCHANGED <<capacity, count, head, tail, items, queue_mutex, not_full,
                   not_empty, queue_of, item, got, ret_pc, loop_i, logvars, ctxvars,
                   statics, plugin_names, queue_size, stdin, lines_read, wait_error,
                   exit_status, init_fault, auxvars, init_result, test_monitor,
                   released, forwarded, transformed, discarded>>

\* memset(&queue, 0, sizeof(consumer_producer_t)); consumer_producer_init(&queue, cap)
FinInit ==
    /\ \E cap \in 1 .. MaxCapacity : QueueInit({0}, cap)
    /\ pc = [t \in FinThreads |-> "fin_loop"]
    /\ queue_of = [t \in FinThreads |-> 0]
    /\ item = [t \in FinThreads |-> NULL]
    /\ got = [t \in FinThreads |-> NULL]
    /\ ret_pc = [t \in FinThreads |-> "fin_loop"]
    /\ loop_i = [t \in FinThreads |-> 0]
    /\ NoPlugins
    /\ NoAux
    /\ test_monitor = 0
    /\ wait_result = [t \in FinThreads |-> "none"]
    /\ released = {}

FinThread(t) ==
    \/ FinPut(t) \/ FinGet(t) \/ FinSignalFinished(t)
    \/ FinWaitCall(t) \/ FinWaitFinished(t) \/ FinWaitWake(t)
    \/ QueueStep(t)

FinNext == \E t \in FinThreads : FinThread(t)

FinSpec == FinInit /\ [][FinNext]_vars

(***************************************************************************)
(* common_plugin_init and the consumer_producer_init it calls, one action  *)
(* per construction step, every step of which can fail.  A resource is     *)
(* named by what it is and by the call of common_plugin_init that built it.*)
(***************************************************************************)
\* cleanup_partial_init(queue, stage): what it releases, in order
cleanup_partial_init(stage) ==
    (IF stage >= 3 THEN <<"not_empty_monitor">> ELSE <<>>)
    \o (IF stage >= 2 THEN <<"not_full_monitor">> ELSE <<>>)
    \o (IF stage >= 1 THEN <<"queue_mutex">> ELSE <<>>)
    \o <<"items">>
\* consumer_producer_destroy on a buffer that holds no record
consumer_producer_destroy ==
    <<"items", "not_full_monitor", "not_empty_monitor", "finished_monitor",
      "queue_mutex">>
\* common_plugin_init after a failure of consumer_producer_init or pthread_create
queue_failure_unwind == <<"queue", "ready_mutex", "ready_cond", "context">>

\* the construction steps of common_plugin_init in program order: what each
\* builds, what the code releases when the step fails, and the error it returns
InitSteps ==
    << [name |-> "plugin_instances_array", unwind |-> <<>>,
        error |-> "Failed to allocate plugin instances array"],
       [name |-> "context", unwind |-> <<>>,
        error |-> "Failed to allocate context"],
       [name |-> "ready_mutex", unwind |-> <<"context">>,
        error |-> "Failed to initialize ready mutex"],
       [name |-> "ready_cond", unwind |-> <<"ready_mutex", "context">>,
        error |-> "Failed to initialize ready condition"],
       [name |-> "queue", unwind |-> <<"ready_mutex", "ready_cond", "context">>,
        error |-> "Failed to allocate memory for queue structure"],
       [name |-> "items", unwind |-> queue_failure_unwind,
        error |-> "Failed to allocate memory for items"],
       [name |-> "queue_mutex",
        unwind |-> cleanup_partial_init(0) \o queue_failure_unwind,
        error |-> "Failed to initialize queue mutex"],
       [name |-> "not_full_monitor",
        unwind |-> cleanup_partial_init(1) \o queue_failure_unwind,
        error |-> "Failed to initialize not_full_monitor"],
       [name |-> "not_empty_monitor",
        unwind |-> cleanup_partial_init(2) \o queue_failure_unwind,
        error |-> "Failed to initialize not_empty_monitor"],
       [name |-> "finished_monitor",
        unwind |-> cleanup_partial_init(3) \o queue_failure_unwind,
        error |-> "Failed to initialize finished_monitor"],
       [name |-> "consumer_thread",
        unwind |-> consumer_producer_destroy \o queue_failure_unwind,
        error |-> "Failed occour when creating consumer thread"] >>

\* the call of common_plugin_init in progress, or the next one
CurrentCall == Len(init_errors) + 1
\* the resources named by names, as built by the current call
OfCall(names) == [k \in 1 .. Len(names) |-> <<names[k], CurrentCall>>]

\* common_plugin_init is called; the instance table is allocated by the first call
InitCall ==
    /\ pc[Main] = "i_idle"
    /\ Len(init_errors) < MaxInitCalls
    /\ loop_i' = [loop_i EXCEPT ![Main] = IF TableAllocated THEN 2 ELSE 1]
    /\ pc' = [pc EXCEPT ![Main] = "i_step"]
    /\ UNCHANGED <<bufvars, queue_of, item, got, ret_pc, logvars, plugvars>>

\* the current construction step succeeds
InitConstruct ==
    LET k == loop_i[Main] IN
    /\ pc[Main] = "i_step"
    /\ heap' = Alloc(heap, <<InitSteps[k].name, CurrentCall>>)
    /\ IF k < Len(InitSteps)
       THEN /\ loop_i' = [loop_i EXCEPT ![Main] = k + 1]
            /\ UNCHANGED pc
       ELSE /\ pc' = [pc EXCEPT ![Main] = "i_register"]
            /\ UNCHANGED loop_i
    /\ UNCHANGED <<bufvars, queue_of, item, got, ret_pc, logvars, ctxvars, statics,
                   plugin_names, queue_size, stdin, lines_read, wait_error,
                   exit_status, init_fault, init_result, monvars, argvars, faultvars,
                   errvars, destroyvars, linevars, callvars, pingvars, forwarded, transformed,
                   discarded>>

\* the current construction step fails: release what the code releases at this
\* point and return the error
InitFail ==
    LET k == loop_i[Main] IN
    /\ pc[Main] = "i_step"
    /\ heap' = FreeAll(heap, OfCall(InitSteps[k].unwind))
    /\ init_errors' = Append(init_errors, <<InitSteps[k].error>>)
    /\ pc' = [pc EXCEPT ![Main] = "i_idle"]
    /\ UNCHANGED <<bufvars, queue_of, item, got, ret_pc, loop_i, logvars, ctxvars,
                   statics, plugin_names, queue_size, stdin, lines_read, wait_error,
                   exit_status, init_fault, init_result, monvars, argvars, faultvars,
                   log_errors, submit_errors, destroyvars, linevars, callvars, pingvars,
                   forwarded, transformed, discarded>>

\* the thread has signalled ready: initialized = 1;
\* plugin_instances_array[total_plugin_instances] = context;
\* current_init_instance_index = total_plugin_instances++; return NULL
InitRegister ==
    /\ pc[Main] = "i_register"
    /\ current_init_instance_index' =
           [current_init_instance_index EXCEPT ![0] = total_plugin_instances[0]]
    /\ total_plugin_instances' = [total_plugin_instances EXCEPT ![0] = @ + 1]
    /\ init_errors' = Append(init_errors, NULL)
    /\ pc' = [pc EXCEPT ![Main] = "i_idle"]
    /\ UNCHANGED <<bufvars, queue_of, item, got, ret_pc, loop_i, logvars, ctxvars,
                   next_wait_instance_index, next_fini_instance_index,
                   plugin_names, queue_size, stdin, lines_read, wait_error,
                   exit_status, init_fault, init_result, monvars, argvars, faultvars,
                   log_errors, submit_errors, destroyvars, linevars, callvars, pingvars,
                   heapvars, pingvars, forwarded, transformed, discarded>>

\* a freshly loaded copy of the plugin runtime: no table, no instance
InitInit ==
    /\ QueueInit({}, 0)
    /\ NoMonitor /\ NoArgument /\ NoFaults /\ NoDestroy /\ NoLines /\ NoCalls /\ NoHeap /\ NoPing
    /\ process_function = <<>> /\ next_place_work = <<>> /\ finished = <<>>
    /\ initialized = <<>> /\ thread_ready = <<>> /\ thread_created = <<>>
    /\ total_plugin_instances = [s \in {0} |-> 0]
    /\ next_wait_instance_index = [s \in {0} |-> 0]
    /\ next_fini_instance_index = [s \in {0} |-> 0]
    /\ current_init_instance_index = [s \in {0} |-> 0]
    /\ plugin_names = <<>> /\ queue_size \in 1 .. MaxCapacity
    /\ stdin = <<>> /\ lines_read = <<>>
    /\ wait_error = NULL /\ exit_status = 0
    /\ init_fault = NoFault /\ init_result = 0
    /\ forwarded = <<>> /\ transformed = <<>> /\ discarded = <<>>
    /\ pc = [t \in {Main} |-> "i_idle"]
    /\ queue_of = [t \in {Main} |-> 0]
    /\ item = [t \in {Main} |-> NULL]
    /\ got = [t \in {Main} |-> NULL]
    /\ ret_pc = [t \in {Main} |-> "none"]
    /\ loop_i = [t \in {Main} |-> 0]

InitNext == InitCall \/ InitConstruct \/ InitFail \/ InitRegister

InitSpec == InitInit /\ [][InitNext]_vars

(***************************************************************************)
(* Repeated life cycles of one stage on one copy of the plugin runtime, as *)
(* test_memory_leak_prevention of tests/plugin_infra_test.c runs them:     *)
(* common_plugin_init, plugin_attach(mock_next_plugin_place_work),         *)
(* plugin_place_work of the test strings and of <END>,                     *)
(* plugin_wait_finished, plugin_fini, and again.                           *)
(***************************************************************************)
\* error = common_plugin_init(test_uppercase_transform, "leak_test", 5);
\* plugin_attach(mock_next_plugin_place_work): the instance table is allocated when
\* there is none, a new context and queue are built, the worker is created and has
\* signalled ready, the context is registered
CycleInitPlugin ==
    /\ pc[Main] = "y_init"
    /\ Len(init_errors) < MaxCycles
    /\ ~init_refuses(total_plugin_instances[0])
    /\ heap' = IF TableAllocated THEN heap
               ELSE Alloc(heap, <<"plugin_instances_array", Len(init_errors) + 1>>)
    /\ capacity' = [capacity EXCEPT ![0] = queue_size]
    /\ count' = [count EXCEPT ![0] = 0]
    /\ head' = [head EXCEPT ![0] = 0]
    /\ tail' = [tail EXCEPT ![0] = 0]
    /\ items' = [items EXCEPT ![0] = [k \in 0 .. queue_size - 1 |-> NULL]]
    /\ not_full' = [not_full EXCEPT ![0] = monitor_signal(monitor_init(0))]
    /\ not_empty' = [not_empty EXCEPT ![0] = monitor_init(0)]
    /\ finished_monitor' = [finished_monitor EXCEPT ![0] = monitor_init(0)]
    /\ put_log' = [put_log EXCEPT ![0] = <<>>]
    /\ get_log' = [get_log EXCEPT ![0] = <<>>]
    /\ finished' = [finished EXCEPT ![0] = 0]
    /\ initialized' = [initialized EXCEPT ![0] = 1]
    /\ thread_ready' = [thread_ready EXCEPT ![0] = 1]
    /\ thread_created' = [thread_created EXCEPT ![0] = 1]
    /\ next_place_work' = [next_place_work EXCEPT ![0] = MockCallback]
    /\ current_init_instance_index' =
           [current_init_instance_index EXCEPT ![0] = total_plugin_instances[0]]
    /\ total_plugin_instances' = [total_plugin_instances EXCEPT ![0] = @ + 1]
    /\ init_errors' = Append(init_errors, NULL)
    /\ \E strings \in Inputs : stdin' = strings
    /\ lines_read' = <<>>
    /\ forwarded' = [forwarded EXCEPT ![0] = <<>>]
    /\ transformed' = [transformed EXCEPT ![0] = <<>>]
    /\ discarded' = [discarded EXCEPT ![0] = <<>>]
    /\ results' = [results EXCEPT ![0] = <<>>]
    /\ pc' = [pc EXCEPT ![Main] = "t_loop", ![Worker(0)] = "w_loop"]
    /\ UNCHANGED <<queue_mutex, queue_of, item, got, ret_pc, loop_i, process_function,
                   next_wait_instance_index, next_fini_instance_index, plugin_names,
                   queue_size, wait_error, exit_status, init_fault, init_result,
                   monvars, argvars, alloc_failures, log_errors, submit_errors,
                   destroyvars, linevars, callvars, pingvars>>

\* plugin_wait_finished(), when everything is placed
CycleWaitFinished == stdin = <<>> /\ TestWaitFinished

\* error = plugin_fini(), after plugin_wait_finished
CycleFini == pc[Main] = "t_waited" /\ TestFini

\* plugin_fini has returned: the next iteration of the for loop
CycleLoop ==
    /\ pc[Main] = "done"
    /\ Len(init_errors) < MaxCycles
    /\ pc' = [pc EXCEPT ![Main] = "y_init"]
    /\ UNCHANGED <<bufvars, queue_of, item, got, ret_pc, loop_i, logvars, plugvars>>

\* the test starts: nothing is initialized on this copy of the runtime
CycleInit ==
    /\ plugin_names \in [1 .. 1 -> PluginNames]
    /\ queue_size \in 1 .. MaxCapacity
    /\ stdin = <<>>
    /\ lines_read = <<>>
    /\ capacity = [q \in {0} |-> 0]
    /\ count = [q \in {0} |-> 0]
    /\ head = [q \in {0} |-> 0]
    /\ tail = [q \in {0} |-> 0]
    /\ items = [q \in {0} |-> <<>>]
    /\ queue_mutex = [q \in {0} |-> Unlocked]
    /\ not_full = [q \in {0} |-> 0]
    /\ not_empty = [q \in {0} |-> 0]
    /\ finished_monitor = [q \in {0} |-> 0]
    /\ put_log = [q \in {0} |-> <<>>]
    /\ get_log = [q \in {0} |-> <<>>]
    /\ pc = [t \in PipeThreads |-> IF t = Main THEN "y_init" ELSE "not_created"]
    /\ queue_of = [t \in PipeThreads |-> 0]
    /\ item = [t \in PipeThreads |-> NULL]
    /\ got = [t \in PipeThreads |-> NULL]
    /\ ret_pc = [t \in PipeThreads |-> "none"]
    /\ loop_i = [t \in PipeThreads |-> 0]
    /\ process_function = [i \in {0} |-> plugin_names[1]]
    /\ next_place_work = [i \in {0} |-> NoCallback]
    /\ finished = [i \in {0} |-> 0]
    /\ initialized = [i \in {0} |-> 0]
    /\ thread_ready = [i \in {0} |-> 0]
    /\ thread_created = [i \in {0} |-> 0]
    /\ total_plugin_instances = [i \in {0} |-> 0]
    /\ current_init_instance_index = [i \in {0} |-> 0]
    /\ next_wait_instance_index = [i \in {0} |-> 0]
    /\ next_fini_instance_index = [i \in {0} |-> 0]
    /\ wait_error = NULL
    /\ exit_status = 0
    /\ init_fault = NoFault
    /\ init_result = 0
    /\ NoMonitor
    /\ NoArgument
    /\ alloc_failures = 0
    /\ results = [i \in {0} |-> <<>>]
    /\ log_errors = [i \in {0} |-> 0]
    /\ submit_errors = <<>>
    /\ init_errors = <<>>
    /\ NoDestroy /\ NoLines /\ NoCalls /\ NoHeap /\ NoPing
    /\ forwarded = [i \in {0} |-> <<>>]
    /\ transformed = [i \in {0} |-> <<>>]
    /\ discarded = [i \in {0} |-> <<>>]

CycleTest ==
    \/ CycleInitPlugin \/ TestPlaceWork \/ CycleWaitFinished \/ CycleFini \/ CycleLoop
    \/ WaitFinishedEnter \/ WaitFinishedWake
    \/ CleanupFini \/ FiniSignalNotEmpty \/ FiniSignalNotFull \/ FiniJoin \/ FiniDestroy

CycleThread(t) ==
    \/ t = Main /\ CycleTest
    \/ t = Worker(0) /\ WorkerStep(0)
    \/ QueueStep(t)

CycleNext ==
    \/ CycleTest
    \/ WorkerLoop(0) \/ WorkerGot(0) \/ WorkerMarkFinished(0) \/ WorkerSignalFinished(0)
    \/ \E t \in {Main, Worker(0)} : QueueStep(t)

CycleSpec ==
    /\ CycleInit
    /\ [][CycleNext]_vars
    /\ \A t \in {Main, Worker(0)} : WF_vars(CycleThread(t))

(***************************************************************************)
(* The plugin-handle array of main.c: calloc'ed by load_all_plugins, read  *)
(* and written through every later step of main, freed by                  *)
(* cleanup_all_plugins_in_range.  Each step that can fail does or does     *)
(* not; what the stages do with the records is left out.  Reading or       *)
(* freeing the array after it was freed is undefined: the process goes on  *)
(* or is killed.                                                           *)
(***************************************************************************)
PluginsArray == <<"plugins_array", 0>>

\* a read or a write of an element of the array
Use(h, r) ==
    IF h[r] = "released" THEN (r :> "used when released") @@ h ELSE h

\* cleanup_all_plugins_in_range(plugins_arr, num_of_plugins): returns at once when
\* num_of_plugins <= 0, else reads every element in its two loops and frees the array
cleanup_all_plugins_in_range(h, num_of_plugins) ==
    IF num_of_plugins <= 0 THEN h ELSE Free(Use(h, PluginsArray), PluginsArray)

\* the array was freed twice, or read or written after it was freed
Misused(h) ==
    PluginsArray \in DOMAIN h /\ h[PluginsArray] \notin {"live", "released"}

\* everything main's handling of the array leaves alone
handleframe == <<bufvars, queue_of, item, got, ret_pc, logvars, ctxvars, statics,
                 plugin_names, queue_size, stdin, lines_read, wait_error, init_fault,
                 init_result, monvars, argvars, faultvars, errvars, destroyvars,
                 linevars, callvars, pingvars, forwarded, transformed, discarded>>

\* the step after h: the next one, or the death of the process when h is misused
HandleGoes(h, next, status) ==
    /\ heap' = h
    /\ \E after \in (IF Misused(h) THEN {next, "crashed"} ELSE {next}) :
           pc' = [pc EXCEPT ![Main] = after]
    /\ exit_status' = IF pc'[Main] = "h_exit" THEN status ELSE exit_status

\* plugins_array = calloc(num_of_plugins, sizeof(plugin_handle_t)); NULL: return NULL
\* and main returns 1
HandleAlloc ==
    /\ pc[Main] = "h_alloc"
    /\ \E allocated \in BOOLEAN :
           IF allocated
           THEN HandleGoes(Alloc(heap, PluginsArray), "h_load", 0)
           ELSE HandleGoes(heap, "h_exit", 1)
    /\ UNCHANGED <<handleframe, loop_i>>

\* one iteration of the loop of load_all_plugins: load_single_plugin_with_dlmopen and
\* extract_plugin_funcs of plugin k, each of which may fail
HandleLoad ==
    LET k == loop_i[Main] IN
    /\ pc[Main] = "h_load"
    /\ IF k >= NumStages
       THEN /\ HandleGoes(heap, "h_init", 0)
            /\ loop_i' = [loop_i EXCEPT ![Main] = 0]
       ELSE \E outcome \in {"loaded", "load failed", "extract failed"} :
                IF outcome = "loaded"
                THEN /\ HandleGoes(Use(heap, PluginsArray), "h_load", 0)
                     /\ loop_i' = [loop_i EXCEPT ![Main] = k + 1]
                ELSE \* cleanup_all_plugins_in_range(plugins_array, k or k + 1);
                     \* free(plugins_array); return NULL; main returns 1
                     /\ HandleGoes(
                            Free(cleanup_all_plugins_in_range(
                                     Use(heap, PluginsArray),
                                     IF outcome = "load failed" THEN k ELSE k + 1),
                                 PluginsArray),
                            "h_exit", 1)
                     /\ UNCHANGED loop_i
    /\ UNCHANGED handleframe

\* one iteration of the loop of init_all_plugins: plugins_arr[k].init(queue_size); on
\* an error cleanup_all_plugins_in_range(plugins_arr, k) and return 1, which main,
\* testing for -1, takes for success
HandleInit ==
    LET k == loop_i[Main] IN
    /\ pc[Main] = "h_init"
    /\ IF k >= NumStages
       THEN /\ HandleGoes(heap, "h_connect", 0)
            /\ UNCHANGED loop_i
       ELSE \E initialized_ok \in BOOLEAN :
                IF initialized_ok
                THEN /\ HandleGoes(Use(heap, PluginsArray), "h_init", 0)
                     /\ loop_i' = [loop_i EXCEPT ![Main] = k + 1]
                ELSE /\ HandleGoes(
                            cleanup_all_plugins_in_range(Use(heap, PluginsArray), k),
                            IF main_init_failed(1) THEN "h_exit" ELSE "h_connect", 2)
                     /\ UNCHANGED loop_i
    /\ UNCHANGED handleframe

\* connect_plugins_in_pipeline_chain(loaded_plugins_arr, total_num_of_plugins)
HandleConnect ==
    /\ pc[Main] = "h_connect"
    /\ HandleGoes(Use(heap, PluginsArray), "h_read", 0)
    /\ UNCHANGED <<handleframe, loop_i>>

\* read_input_and_process(&loaded_plugins_arr[0]); when a place_work fails,
\* cleanup_all_plugins_in_range(loaded_plugins_arr, total_num_of_plugins); return 1
HandleRead ==
    /\ pc[Main] = "h_read"
    /\ \E submitted \in BOOLEAN :
           IF submitted
           THEN HandleGoes(Use(heap, PluginsArray), "h_drain", 0)
           ELSE HandleGoes(
                    cleanup_all_plugins_in_range(Use(heap, PluginsArray), NumStages),
                    "h_exit", 1)
    /\ UNCHANGED <<handleframe, loop_i>>

\* the loop over loaded_plugins_arr[plugin_index].wait_finished
HandleDrain ==
    /\ pc[Main] = "h_drain"
    /\ HandleGoes(Use(heap, PluginsArray), "h_cleanup", 0)
    /\ UNCHANGED <<handleframe, loop_i>>

\* cleanup_all_plugins_in_range(loaded_plugins_arr, total_num_of_plugins); return 0
HandleCleanup ==
    /\ pc[Main] = "h_cleanup"
    /\ HandleGoes(cleanup_all_plugins_in_range(heap, NumStages), "h_exit", 0)
    /\ UNCHANGED <<handleframe, loop_i>>

\* main after a valid command line: total_num_of_plugins = argc - 2 plugin names
HandleInitial ==
    /\ plugin_names \in UNION {[1 .. n -> PluginNames] : n \in 1 .. MaxStages}
    /\ queue_size \in 1 .. MaxCapacity
    /\ QueueInit({}, 1)
    /\ pc = [t \in {Main} |-> "h_alloc"]
    /\ queue_of = [t \in {Main} |-> 0]
    /\ item = [t \in {Main} |-> NULL]
    /\ got = [t \in {Main} |-> NULL]
    /\ ret_pc = [t \in {Main} |-> "none"]
    /\ loop_i = [t \in {Main} |-> 0]
    /\ process_function = <<>> /\ next_place_work = <<>> /\ finished = <<>>
    /\ initialized = <<>> /\ thread_ready = <<>> /\ thread_created = <<>>
    /\ total_plugin_instances = <<>> /\ next_wait_instance_index = <<>>
    /\ next_fini_instance_index = <<>> /\ current_init_instance_index = <<>>
    /\ stdin = <<>> /\ lines_read = <<>>
    /\ wait_error = NULL /\ exit_status = 0
    /\ init_fault = NoFault /\ init_result = 0
    /\ forwarded = <<>> /\ transformed = <<>> /\ discarded = <<>>
    /\ NoMonitor
    /\ NoAux

HandleNext ==
    \/ HandleAlloc \/ HandleLoad \/ HandleInit \/ HandleConnect \/ HandleRead
    \/ HandleDrain \/ HandleCleanup

HandleSpec == HandleInitial /\ [][HandleNext]_vars

(***************************************************************************)
(* The ping-pong tests: two threads hand a turn to each other over two     *)
(* monitors (simple_ping_pong_test.c, monitor_comprehensive_test.c).       *)
(***************************************************************************)
PingThreads == 0 .. 1

\* everything the ping-pong threads never touch
pingframe == <<bufvars, queue_of, item, got, ret_pc, logvars, ctxvars, statics,
               plugin_names, queue_size, stdin, lines_read, wait_error, exit_status,
               init_fault, init_result, monvars, argvars, faultvars, errvars,
               destroyvars, linevars, callvars, heapvars, forwarded, transformed,
               discarded, other_monitor>>

\* contexts[t].other_monitor = &monitors[1 - t]
simple_other_monitor(thread_id) == 1 - thread_id

\* other_monitor = ((monitor_t*)ctx->monitor) + (1 - ctx->thread_id), where
\* ctx->monitor = &monitors[thread_id]
comprehensive_other_monitor(thread_id) == thread_id + (1 - thread_id)

\* monitor_wait(my_monitor): lock; if (signaled) { unlock; return 0; } otherwise
\* pthread_cond_wait; on return operations++ (loop_i counts the turns taken)
PingWait(t) ==
    /\ pc[t] = "pp_wait"
    /\ IF monitor_wait_passes(monitors[t])
       THEN /\ pc' = [pc EXCEPT ![t] = "pp_reset"]
            /\ loop_i' = [loop_i EXCEPT ![t] = @ + 1]
            /\ monitors' = [monitors EXCEPT ![t] = monitor_wait(@)]
       ELSE /\ pc' = [pc EXCEPT ![t] = "pp_parked"]
            /\ UNCHANGED <<loop_i, monitors>>
    /\ UNCHANGED pingframe

\* pthread_cond_wait returns and the loop finds the flag set
PingWake(t) ==
    /\ pc[t] = "pp_parked"
    /\ monitor_wait_passes(monitors[t])
    /\ pc' = [pc EXCEPT ![t] = "pp_reset"]
    /\ loop_i' = [loop_i EXCEPT ![t] = @ + 1]
    /\ monitors' = [monitors EXCEPT ![t] = monitor_wait(@)]
    /\ UNCHANGED pingframe

\* monitor_reset(my_monitor)
PingReset(t) ==
    /\ pc[t] = "pp_reset"
    /\ monitors' = [monitors EXCEPT ![t] = monitor_reset(@)]
    /\ pc' = [pc EXCEPT ![t] = "pp_signal"]
    /\ UNCHANGED <<pingframe, loop_i>>

\* monitor_signal(other_monitor); usleep; the next iteration or the return
PingSignal(t) ==
    /\ pc[t] = "pp_signal"
    /\ monitors' = [monitors EXCEPT ![other_monitor[t]] = monitor_signal(@)]
    /\ pc' = [pc EXCEPT ![t] = IF loop_i[t] < PingRounds THEN "pp_wait" ELSE "pp_done"]
    /\ UNCHANGED <<pingframe, loop_i>>

\* monitor_init of both monitors, monitor_signal(&monitors[0]), then the two threads
\* of one of the two tests
PingInit ==
    /\ monitors = [m \in 0 .. 1 |-> IF m = 0 THEN monitor_signal(monitor_init(m))
                                             ELSE monitor_init(m)]
    /\ other_monitor \in {[t \in PingThreads |-> simple_other_monitor(t)],
                          [t \in PingThreads |-> comprehensive_other_monitor(t)]}
    /\ QueueInit({}, 1)
    /\ pc = [t \in PingThreads |-> "pp_wait"]
    /\ queue_of = [t \in PingThreads |-> 0]
    /\ item = [t \in PingThreads |-> NULL]
    /\ got = [t \in PingThreads |-> NULL]
    /\ ret_pc = [t \in PingThreads |-> "pp_wait"]
    /\ loop_i = [t \in PingThreads |-> 0]
    /\ NoPlugins
    /\ NoArgument /\ NoFaults /\ NoDestroy /\ NoLines /\ NoCalls /\ NoHeap
    /\ NoMonitor

PingThread(t) == PingWait(t) \/ PingWake(t) \/ PingReset(t) \/ PingSignal(t)

PingNext == \E t \in PingThreads : PingThread(t)

PingSpec ==
    PingInit /\ [][PingNext]_vars /\ \A t \in PingThreads : WF_vars(PingThread(t))

(***************************************************************************)
(* Helpers of the properties.                                              *)
(***************************************************************************)
IsPrefix(s, u) == Len(s) <= Len(u) /\ \A k \in 1 .. Len(s) : s[k] = u[k]
Occurrences(s, r) == Cardinality({k \in 1 .. Len(s) : s[k] = r})
InCall(t) == pc[t] \notin {"loop", "done"}
PutOrder(p) == [k \in 1 .. ItemsPerProducer |-> ProducerItem(p, k - 1)]
FromProducer(p, r) == r # NULL /\ r[2] = DigitChar[p + 1]
AllRecords == {ProducerItem(p, i) : p \in Producers, i \in 0 .. ItemsPerProducer - 1}

(***************************************************************************)
(* C2: FIFO delivery.  The records consumer_producer_get has returned so   *)
(* far, in the order returned, are a prefix of the records                 *)
(* consumer_producer_put has inserted, in insertion order.                 *)
(***************************************************************************)
C2_FifoDelivery == \A q \in DOMAIN get_log : IsPrefix(get_log[q], put_log[q])

\* every record went through a capacity-2 ring, so both indices wrapped around
C2_Witness ==
    /\ capacity[0] = 2
    /\ Len(get_log[0]) = NumProducers * ItemsPerProducer
    /\ get_log[0][1][2] # get_log[0][2][2]

(***************************************************************************)
(* C3: buffer invariant.  Whenever no thread holds the queue mutex:        *)
(* 0 <= count <= capacity, head and tail are ring indices,                 *)
(* tail = (head + count) mod capacity, and exactly the count slots from    *)
(* head on (mod capacity) hold a record.                                   *)
(***************************************************************************)
C3_BufferInvariant ==
    \A q \in DOMAIN capacity :
        queue_mutex[q] = Unlocked =>
            /\ 0 <= count[q] /\ count[q] <= capacity[q]
            /\ 0 <= head[q] /\ head[q] < capacity[q]
            /\ 0 <= tail[q] /\ tail[q] < capacity[q]
            /\ tail[q] = (head[q] + count[q]) % capacity[q]
            /\ \A s \in 0 .. capacity[q] - 1 :
                   (items[q][s] # NULL) <=> ((s - head[q]) % capacity[q] < count[q])

\* a full capacity-2 ring whose occupied interval wraps around the array end
C3_Witness ==
    /\ queue_mutex[0] = Unlocked
    /\ capacity[0] = 2 /\ count[0] = 2 /\ head[0] = 1
    /\ items[0][1] # NULL /\ items[0][0] # NULL

(***************************************************************************)
(* C4: a put that found the buffer full returns once a get has removed a   *)
(* record, with no further get: no put stays blocked in                    *)
(* monitor_wait(not_full) for ever while the buffer has room.              *)
(***************************************************************************)
C4_FullPutReturnsAfterGet ==
    \A p \in Producers :
        ~<>[](pc[p] = "put_parked" /\ count[0] < capacity[0])

(***************************************************************************)
(* C5: a get that found the buffer empty returns a record once a put has   *)
(* inserted one, with no further put: no get stays blocked in              *)
(* monitor_wait(not_empty) for ever while the buffer holds a record.       *)
(***************************************************************************)
C5_EmptyGetReturnsAfterPut ==
    \A c \in Consumers :
        ~<>[](pc[c] = "get_parked" /\ count[0] > 0)

(***************************************************************************)
(* C6: with concurrent producers and consumers every record returned by    *)
(* get was inserted by exactly one put and is returned by exactly one get; *)
(* when the buffer is empty and no call is in progress the records         *)
(* obtained are exactly the records put; the records of one producer are   *)
(* returned in that producer's put order.                                  *)
(***************************************************************************)
C6_MultisetAndProducerOrder ==
    /\ \A k \in 1 .. Len(get_log[0]) : get_log[0][k] \in AllRecords
    /\ \A r \in AllRecords :
           /\ Occurrences(get_log[0], r) <= Occurrences(put_log[0], r)
           /\ Occurrences(put_log[0], r) <= 1
           /\ (count[0] = 0 /\ \A t \in DOMAIN pc : ~InCall(t))
                  => Occurrences(get_log[0], r) = Occurrences(put_log[0], r)
    /\ \A p \in Producers :
           IsPrefix(SelectSeq(get_log[0], LAMBDA r : FromProducer(p, r)), PutOrder(p))

\* all records consumed, the two producers' records interleaved in the buffer
C6_Witness ==
    /\ count[0] = 0 /\ \A t \in DOMAIN pc : pc[t] = "done"
    /\ Len(get_log[0]) = NumProducers * ItemsPerProducer
    /\ get_log[0][1][2] # get_log[0][2][2]

(***************************************************************************)
(* C7: the workload of P producers x k puts and consumers performing P*k   *)
(* gets terminates: every call returns and the buffer ends empty.          *)
(***************************************************************************)
C7_WorkloadTerminates == <>((\A t \in DOMAIN pc : pc[t] = "done") /\ count[0] = 0)


(***************************************************************************)
(* Helpers of the pipeline properties.                                     *)
(***************************************************************************)
LastStage == NumStages - 1
\* the whole input stream: what main has read followed by what is still unread
InputStream == lines_read \o stdin
\* the records worker i has removed and already handled
Handled(i) ==
    IF pc[Worker(i)] \in {"get_signal", "w_got"}
    THEN SubSeq(get_log[i], 1, Len(get_log[i]) - 1)
    ELSE get_log[i]
\* the same without the record that was freed at shutdown, which is the last removed
Kept(i) ==
    IF discarded[i] # <<>>
    THEN SubSeq(get_log[i], 1, Len(get_log[i]) - 1)
    ELSE Handled(i)
\* f applied to every non-sentinel record, results that are NULL left out, the
\* sentinel unmodified
RECURSIVE MapTransform(_, _)
MapTransform(name, recs) ==
    IF recs = <<>> THEN <<>>
    ELSE LET r == Head(recs)
             y == IF r = END THEN END ELSE process(name, r)
         IN (IF y = NULL THEN <<>> ELSE <<y>>) \o MapTransform(name, Tail(recs))
\* record r after the transforms of stages i .. n - 1, in pipeline order
RECURSIVE ThroughStages(_, _, _)
ThroughStages(r, i, n) ==
    IF i >= n THEN r ELSE ThroughStages(process(plugin_names[i + 1], r), i + 1, n)
SentinelOnlyLast(s) == \A k \in 1 .. Len(s) : s[k] = END => k = Len(s)

(***************************************************************************)
(* C1: the pipeline drains.  For every capacity, every number of stages    *)
(* and every finite input stream that ends with <END>, under fair          *)
(* scheduling main eventually returns from every wait_finished, finishes   *)
(* cleanup_all_plugins_in_range and has joined every worker.               *)
(***************************************************************************)
C1_PipelineDrains ==
    init_fault = NoFault =>
        <>(pc[Main] = "done" /\ \A i \in Stages : pc[Worker(i)] = "joined")

C9_LastStageReceivesComposition ==
    LET expected == [k \in 1 .. Len(InputStream) |->
                        IF k = Len(InputStream) THEN END
                        ELSE ThroughStages(InputStream[k], 0, LastStage)]
    IN
    (\A i \in 0 .. LastStage - 1 : plugin_names[i + 1] # "null_test") =>
        /\ IsPrefix(get_log[LastStage], expected)
        /\ pc[Worker(LastStage)] \in {"exited", "joined"} =>
               get_log[LastStage] = expected

(***************************************************************************)
(* C10: the sentinel ends the stream of a stage.  The strings a stage      *)
(* hands downstream contain <END> at most once, as the last; and the       *)
(* worker removes nothing from its queue after it removed <END>.           *)
(***************************************************************************)
C10_SentinelForwardedOnceAndLast ==
    \A i \in Stages :
        /\ SentinelOnlyLast(forwarded[i])
        /\ SentinelOnlyLast(get_log[i])

(***************************************************************************)
(* C11: the sentinel is never transformed.  No stage invokes its transform *)
(* with <END>; the worker that removed <END> and has a downstream callback *)
(* has handed <END> itself downstream as its last string; and when the     *)
(* input consists of the sentinel alone, no stage invokes its transform    *)
(* and nothing but <END> is handed downstream.                             *)
(***************************************************************************)
C11_SentinelNeverTransformed ==
    \A i \in Stages :
        /\ \A k \in 1 .. Len(transformed[i]) : transformed[i][k] # END
        /\ (pc[Worker(i)] \in {"w_end", "w_end_signal"}
                /\ next_place_work[i] # NoCallback) =>
               /\ forwarded[i] # <<>>
               /\ forwarded[i][Len(forwarded[i])] = END
        /\ InputStream = <<END>> =>
               /\ transformed[i] = <<>>
               /\ \A k \in 1 .. Len(forwarded[i]) : forwarded[i][k] = END

\* a sentinel-only input has passed through both stages of a two-stage pipeline
C11_Witness ==
    /\ NumStages = 2
    /\ InputStream = <<END>>
    /\ forwarded[0] = <<END>>
    /\ get_log[1] = <<END>>
    /\ pc[Worker(1)] = "exited"
    /\ transformed[0] = <<>> /\ transformed[1] = <<>>

(***************************************************************************)
(* C12: the finished event of a stage is latched only after its sentinel   *)
(* went downstream.  Whenever the finished event of stage i is latched,    *)
(* the worker of stage i has removed <END> from its queue, and if a        *)
(* downstream callback is attached the submit that carries <END> has       *)
(* returned: <END> has been inserted into the queue of stage i + 1 and the *)
(* worker is no longer inside the submit call.  So it is in every state    *)
(* after plugin_wait_finished has returned for the stage.                  *)
(***************************************************************************)
C12_FinishedAfterSentinelForwarded ==
    \A i \in Stages :
        finished_monitor[i] = 1 =>
            /\ \E k \in 1 .. Len(get_log[i]) : get_log[i][k] = END
            /\ pc[Worker(i)] \in {"exited", "joined"}
            /\ next_place_work[i] # NoCallback =>
                   /\ forwarded[i] # <<>>
                   /\ forwarded[i][Len(forwarded[i])] = END
                   /\ \E k \in 1 .. Len(put_log[next_place_work[i]]) :
                          put_log[next_place_work[i]][k] = END

\* main has returned from plugin_wait_finished of stage 0 of a two-stage pipeline
\* while stage 1 has not yet removed the sentinel from its queue
C12_Witness ==
    /\ NumStages = 2
    /\ pc[Main] = "m_drain"
    /\ loop_i[Main] = 1
    /\ finished_monitor[0] = 1
    /\ next_place_work[0] = 1
    /\ count[1] > 0
    /\ get_log[1] # put_log[1]

(***************************************************************************)
(* C13: a signal is retained.  monitor_signal leaves the flag latched, no  *)
(* step other than monitor_reset clears it, and a monitor_wait that is     *)
(* called while the flag is latched returns success in that step, without  *)
(* parking.  So a signal issued while no thread waits lets the next wait   *)
(* pass when no reset came between.                                        *)
(***************************************************************************)
C13_SignalRetainedForNextWait ==
    [][\A t \in MonThreads :
          /\ (pc[t] = "mon_signal" /\ pc'[t] = "mon_next") => test_monitor' = 1
          /\ (test_monitor = 1 /\ pc[t] # "mon_reset" /\ pc'[t] # pc[t]) =>
                 test_monitor' = 1
          /\ (test_monitor = 1 /\ pc[t] = "mon_wait" /\ pc'[t] # pc[t]) =>
                 /\ pc'[t] = "mon_next"
                 /\ wait_result'[t] = "immediate"]_vars

\* a signal was issued while nobody was parked, and a later wait returned at once
C13_Witness ==
    /\ released = {}
    /\ test_monitor = 1
    /\ \E t \in MonThreads : wait_result[t] = "immediate"
    /\ \A t \in MonThreads : wait_result[t] # "woken"

(***************************************************************************)
(* C14: one signal releases every waiter.  A thread that was parked in     *)
(* monitor_wait when monitor_signal was called returns from its wait       *)
(* eventually, whatever the other threads do to the monitor afterwards.    *)
(***************************************************************************)
C14_SignalReleasesAllWaiters ==
    \A t \in MonThreads : (t \in released) ~> (t \notin released)

(***************************************************************************)
(* C15: waiting does not consume a signal.  A step of monitor_wait, be it  *)
(* the call or the return of a parked waiter, leaves the flag as it is, a  *)
(* wait that finds the flag latched returns success, and the flag goes     *)
(* from latched to clear only in a step of monitor_reset.                  *)
(***************************************************************************)
C15_WaitLeavesFlagLatched ==
    [][/\ \A t \in MonThreads :
              (pc[t] \in {"mon_wait", "mon_parked"} /\ pc'[t] # pc[t]) =>
                  /\ test_monitor' = test_monitor
                  /\ test_monitor = 1 => pc'[t] = "mon_next"
       /\ (test_monitor = 1 /\ test_monitor' = 0) =>
              \E t \in MonThreads : pc[t] = "mon_reset" /\ pc'[t] = "mon_next"]_vars

\* two threads have waited on the latched flag, both returned at once, one of them
\* has ended, and the flag is still latched
C15_Witness ==
    /\ test_monitor = 1
    /\ \E t, u \in MonThreads :
           /\ t # u
           /\ wait_result[t] = "immediate" /\ loop_i[t] = OpsPerThread
           /\ pc[t] = "done"
           /\ wait_result[u] = "immediate"
    /\ \A t \in MonThreads : pc[t] # "mon_reset"

(***************************************************************************)
(* C16: a wait returns only on a latched flag.  monitor_wait returns, at   *)
(* once or after parking, only in a step in which the flag is latched, and *)
(* the flag becomes latched only in a step of monitor_signal: after        *)
(* monitor_init or monitor_reset a waiter stays parked until some thread   *)
(* signals.                                                                *)
(***************************************************************************)
C16_WaitReturnsOnlyWhenLatched ==
    [][/\ \A t \in MonThreads :
              (pc[t] \in {"mon_wait", "mon_parked"} /\ pc'[t] = "mon_next") =>
                  test_monitor = 1
       /\ \A t \in MonThreads :
              (pc[t] = "mon_wait" /\ pc'[t] # pc[t] /\ test_monitor = 0) =>
                  pc'[t] = "mon_parked"
       /\ (test_monitor = 0 /\ test_monitor' = 1) =>
              \E t \in MonThreads : pc[t] = "mon_signal" /\ pc'[t] = "mon_next"]_vars

\* a thread that parked on the clear flag has returned after another thread signalled
C16_Witness ==
    \E t \in MonThreads :
        /\ wait_result[t] = "woken"
        /\ pc[t] = "mon_next"
        /\ test_monitor = 1

(***************************************************************************)
(* C19: a failing init rolls the pipeline back.  When the init of stage i, *)
(* i >= 1, returns an error, then eventually the process has ended with a  *)
(* non-zero exit status and every stage 0 .. i - 1 is torn down: its       *)
(* worker is joined and its queue is destroyed.                            *)
(***************************************************************************)
C19_InitFailureRollsBack ==
    (init_fault # NoFault /\ init_fault >= 1) =>
        <>(/\ pc[Main] = "done"
           /\ exit_status # 0
           /\ \A j \in 0 .. init_fault - 1 :
                  pc[Worker(j)] = "joined" /\ capacity[j] = 0)

(***************************************************************************)
(* C20: the exit status of a failed init.  When the init of a stage, of    *)
(* whatever index, returned an error, the status the process ends with is  *)
(* not zero and is not the status of an invalid command line.              *)
(***************************************************************************)
C20_InitFailureExitStatus ==
    (pc[Main] = "done" /\ init_fault # NoFault) =>
        exit_status \notin {0, ExitInvalidArguments}

C18_FiniUnblocksIdleWorker ==
    (/\ pc[Main] = "c_fini" /\ loop_i[Main] = 0
     /\ initialized[0] = 1
     /\ pc[Worker(0)] = "get_parked" /\ count[0] = 0
     /\ \A k \in 1 .. Len(put_log[0]) : put_log[0][k] # END)
        ~> (pc[Main] = "done")

(***************************************************************************)
(* C21: parse_queue_size_arg accepts only a valid capacity.  When it       *)
(* returns a value other than -1, its argument consists of decimal digits  *)
(* only, is at most 256 characters long, has a numeric value in            *)
(* 1 .. 1000000, and that value is what is returned.                       *)
(***************************************************************************)
AllDigits(s) == \A k \in 1 .. Len(s) : IsDigit(s[k])
RECURSIVE NumericValue(_)
\* the numeric value of a digit string, as digits without leading zeros
NumericValue(s) ==
    IF s = <<>> THEN <<>>
    ELSE TimesTenPlus(NumericValue(SubSeq(s, 1, Len(s) - 1)), DigitValue(s[Len(s)]))

C21_ParseAcceptsOnlyValidCapacity ==
    (pc[Main] = "done" /\ parse_return # -1) =>
        /\ argument_string # <<>>
        /\ AllDigits(argument_string)
        /\ Len(argument_string) <= MAX_FILE_NAME_LENGTH
        /\ ~OutOfRange(NumericValue(argument_string))
        /\ parse_return = ToInt(NumericValue(argument_string))

(***************************************************************************)
(* C22: a transform that returns no result.  The worker hands nothing      *)
(* downstream for a record whose transform returned NULL and keeps         *)
(* running: every record it removed before the sentinel was given to the   *)
(* transform, the results that are not NULL are what it handed downstream, *)
(* in order, followed by <END> once it has handled the sentinel; it leaves *)
(* its loop only on the sentinel or on plugin_fini; and when it has left   *)
(* on the sentinel the finished event of the stage is latched.             *)
(***************************************************************************)
NotNull(r) == r # NULL
NotSentinel(r) == r # END
SentinelHandled(i) == Kept(i) # <<>> /\ Kept(i)[Len(Kept(i))] = END

C22_NullResultSkipped ==
    LET i == 0
        payload == SelectSeq(results[i], NotNull)
    IN
    /\ transformed[i] = SelectSeq(Kept(i), NotSentinel)
    /\ Len(results[i]) = Len(transformed[i])
    /\ \A k \in 1 .. Len(results[i]) :
           results[i][k] \in {NULL, process(process_function[i], transformed[i][k])}
    /\ forwarded[i] = IF SentinelHandled(i) THEN Append(payload, END) ELSE payload
    /\ pc[Worker(i)] \in {"exited", "joined"} => SentinelHandled(i) \/ finished[i] = 1
    /\ (pc[Worker(i)] = "exited" /\ SentinelHandled(i)) => finished_monitor[i] = 1

\* the transform returned NULL for the first record and a result for the second,
\* which was handed downstream before the sentinel latched the finished event
C22_Witness ==
    /\ Len(results[0]) = 2
    /\ results[0][1] = NULL
    /\ results[0][2] # NULL
    /\ forwarded[0] = <<results[0][2], END>>
    /\ finished_monitor[0] = 1

(***************************************************************************)
(* C23: a downstream callback that returns an error.  The worker absorbs   *)
(* the error: it logs it and keeps consuming, so every later result and    *)
(* the sentinel are still handed to the callback, in order, the worker     *)
(* leaves its loop only on the sentinel or on plugin_fini, the sentinel    *)
(* still latches the finished event, and plugin_place_work of the stage    *)
(* never returns the callback's error to the thread that submits.          *)
(***************************************************************************)
C23_DownstreamErrorAbsorbed ==
    LET i == 0
        payload == SelectSeq(results[i], NotNull)
    IN
    next_place_work[i] = FailingCallback =>
        /\ forwarded[i] = IF SentinelHandled(i) THEN Append(payload, END) ELSE payload
        /\ log_errors[i] = Len(forwarded[i])
        /\ pc[Worker(i)] \in {"exited", "joined"} =>
               SentinelHandled(i) \/ finished[i] = 1
        /\ (pc[Worker(i)] = "exited" /\ SentinelHandled(i)) => finished_monitor[i] = 1
        /\ \A k \in 1 .. Len(submit_errors) : submit_errors[k] # DownstreamError
        /\ submit_errors # <<>> => PlaceWorkRejects(i)

\* the callback failed for two results and for the sentinel, the worker logged the
\* three errors and latched the finished event
C23_Witness ==
    /\ next_place_work[0] = FailingCallback
    /\ log_errors[0] = 3
    /\ Len(forwarded[0]) = 3
    /\ forwarded[0][3] = END
    /\ finished_monitor[0] = 1
    /\ pc[Worker(0)] = "exited"

(***************************************************************************)
(* C24: while main is inside a submission to stage 0, the first one        *)
(* included, every stage is initialized with its worker running and the    *)
(* linking is complete: the callback of stage i is the submit operation of *)
(* stage i + 1 for i < n - 1, and stage n - 1 has no callback.             *)
(***************************************************************************)
PutLabels ==
    {"put_try", "put_count", "put_tail", "put_signal", "put_reset", "put_wait",
     "put_parked"}
MainSubmitting == pc[Main] \in PutLabels /\ queue_of[Main] = 0

RECURSIVE UpToSentinel(_)
UpToSentinel(lines) ==
    IF lines = <<>> THEN <<>>
    ELSE IF Head(lines) = END THEN <<END>>
    ELSE <<Head(lines)>> \o UpToSentinel(Tail(lines))

ReadLabels == {"m_init", "m_ready", "m_attach", "m_read", "m_placed"} \cup PutLabels

C25_SubmitsInputUpToFirstSentinel ==
    LET expected == UpToSentinel(InputStream) IN
    /\ IsPrefix(lines_read, expected)
    /\ IsPrefix(put_log[0], lines_read)
    /\ Len(lines_read) - Len(put_log[0]) <= 1
    /\ \A k \in 1 .. Len(put_log[0]) : put_log[0][k] = END => k = Len(put_log[0])
    /\ (pc[Main] \notin ReadLabels /\ exit_status = 0) => put_log[0] = expected

\* main has left the read loop after a record and a sentinel line; the line that
\* follows the sentinel on standard input was not read
C25_Witness ==
    /\ pc[Main] \notin ReadLabels
    /\ Len(put_log[0]) = 2
    /\ put_log[0][2] = END
    /\ stdin # <<>>

(***************************************************************************)
(* C28: when standard input ends without a sentinel line, no <END> is      *)
(* synthesized: stage 0 is never handed one, the finished event of no      *)
(* stage is ever latched, and main never returns from the drain step.      *)
(***************************************************************************)
HasSentinel(lines) == \E k \in 1 .. Len(lines) : lines[k] = END
DrainLabels == {"m_drain", "wf_enter", "wf_parked"}
DrainReturned == pc[Main] \notin ReadLabels \cup DrainLabels

C28_NoSentinelSynthesized == ~HasSentinel(InputStream) => ~HasSentinel(put_log[0])

C28_MainStaysInDrain == ~HasSentinel(InputStream) => ~DrainReturned

C28_NoSentinelNothingFinishes ==
    ~HasSentinel(InputStream) =>
        /\ ~HasSentinel(put_log[0])
        /\ \A i \in Stages : finished_monitor[i] = 0
        /\ ~DrainReturned

(***************************************************************************)
(* C29: a common_plugin_init that is called while the instance of an       *)
(* earlier call has not been finalized returns an error, and it leaves     *)
(* that instance and the registry as they were: one registered instance,   *)
(* no second context, no second worker.                                    *)
(***************************************************************************)
C29_DoubleInitRejected ==
    Len(init_errors) >= 2 =>
        /\ init_errors[2] # NULL
        /\ total_plugin_instances[0] <= 1
        /\ current_init_instance_index[0] = 0
        /\ capacity[1] = 0
        /\ pc[Worker(1)] = "not_created"

(***************************************************************************)
(* C26: a put that is blocked on a full buffer when                        *)
(* consumer_producer_destroy begins returns an error and inserts no        *)
(* record: it does not stay blocked for ever and it does not write into    *)
(* the released slot array.                                                *)
(***************************************************************************)
Inserted(t) == \E k \in 1 .. Len(put_log[0]) : put_log[0][k] = item[t]

C26_BlockedPutNeverWrites ==
    Putter \in blocked_at_destroy =>
        /\ pc[Putter] # "crashed"
        /\ ~Inserted(Putter)
        /\ pc[Putter] = "p_done" => put_error[Putter] # NULL

C26_BlockedPutFailsOnDestroy ==
    (Putter \in blocked_at_destroy) ~>
        (pc[Putter] = "p_done" /\ put_error[Putter] # NULL /\ ~Inserted(Putter))

(***************************************************************************)
(* C27: consumer_producer_destroy releases every record the buffer holds   *)
(* exactly once and leaves no slot array and count = head = tail =         *)
(* capacity = 0; a second destroy releases nothing further; put and get on *)
(* the destroyed buffer return an error and no record without entering     *)
(* their waiting loops.                                                    *)
(***************************************************************************)
Range(seq) == {seq[k] : k \in 1 .. Len(seq)}
NoDuplicates(seq) == \A j, k \in 1 .. Len(seq) : seq[j] = seq[k] => j = k
LoopLabels ==
    PutLabels \cup {"get_try", "get_head", "get_count", "get_signal", "get_reset",
                    "get_wait", "get_parked"}

C27_DestroyReleasesOnce ==
    /\ items[0] = <<>> =>
           /\ NoDuplicates(freed)
           /\ Range(freed) = Range(put_log[0]) \ Range(get_log[0])
    /\ destroy_calls >= 1 =>
           /\ items[0] = <<>>
           /\ capacity[0] = 0 /\ count[0] = 0 /\ head[0] = 0 /\ tail[0] = 0
           /\ pc[Main] \notin LoopLabels
           /\ (pc[Main] = "d_loop" /\ item[Main] # NULL /\ ~Inserted(Main)) =>
                  put_error[Main] # NULL
           /\ (pc[Main] = "d_loop" /\ got[Main] # NULL) => got[Main] \in Range(get_log[0])

\* two records were held, one was taken out, destroy released the other one, a
\* second destroy has returned and a put on the destroyed buffer returned an error
C27_Witness ==
    /\ destroy_calls = 2
    /\ Len(put_log[0]) = 2
    /\ Len(get_log[0]) = 1
    /\ Len(freed) = 1
    /\ pc[Main] = "d_loop"
    /\ put_error[Main] # NULL

(***************************************************************************)
(* C30: every line of standard input before the sentinel, whatever its     *)
(* length, is submitted to stage 0 as exactly one record, equal to the     *)
(* line without its newline: the records submitted so far are the first    *)
(* lines of the input, and when the read loop is over they are the lines   *)
(* up to and including the first sentinel line.                            *)
(***************************************************************************)
NewLinesIn(bytes) == {k \in 1 .. Len(bytes) : bytes[k] = NewLine}
\* the number of lines of a file: the last one may lack its newline
LineCount(bytes) ==
    Cardinality(NewLinesIn(bytes))
        + (IF bytes # <<>> /\ bytes[Len(bytes)] # NewLine THEN 1 ELSE 0)
\* where line j of the file starts, and where it ends (its newline excluded)
LineStart(bytes, j) ==
    IF j = 1 THEN 1
    ELSE 1 + CHOOSE k \in NewLinesIn(bytes) :
                 Cardinality({x \in NewLinesIn(bytes) : x <= k}) = j - 1
LineEnd(bytes, j) ==
    IF j <= Cardinality(NewLinesIn(bytes))
    THEN (CHOOSE k \in NewLinesIn(bytes) :
              Cardinality({x \in NewLinesIn(bytes) : x <= k}) = j) - 1
    ELSE Len(bytes)
LinesOf(bytes) ==
    [j \in 1 .. LineCount(bytes) |->
        SubSeq(bytes, LineStart(bytes, j), LineEnd(bytes, j))]

C30_OneRecordPerLine ==
    LET expected == UpToSentinel(LinesOf(consumed \o stdin)) IN
    /\ pc[Main] = "l_read" => IsPrefix(lines_read, expected)
    /\ pc[Main] = "done" => lines_read = expected

(***************************************************************************)
(* C31  Shutdown order of a run without failures                           *)
(***************************************************************************)
\* the stages 0 .. n-1 in order
StageOrder == [k \in 1 .. NumStages |-> k - 1]
\* the drain loop of main has got a successful return of wait_finished of stage i
Drained(i) ==
    \E k \in 1 .. Len(wait_log) :
        wait_log[k] = [stage |-> i, error |-> NULL, caller |-> "m_drain"]
\* the returns of wait_finished to the first loop of the cleanup routine
CleanupWaits == SelectSeq(wait_log, LAMBDA w : w.caller # "m_drain")

\* C31: in a run in which no stage fails to initialize and whose input holds the
\* sentinel, plugin_fini is called on no stage before the drain loop of main has
\* got a successful return of wait_finished for every stage; plugin_fini is
\* called in stage order 0 .. n-1, at most once per stage, and exactly once per
\* stage when main has finished; and main never parks in a wait_finished that
\* the cleanup routine calls
C31_FiniAfterDrainInOrder ==
    init_fault = NoFault =>
        /\ fini_log # <<>> => \A i \in Stages : Drained(i)
        /\ IsPrefix(fini_log, StageOrder)
        /\ pc[Main] = "done" => fini_log = StageOrder
        /\ pc[Main] = "wf_parked" => ret_pc[Main] = "m_drain"

\* a run of the largest pipeline without failures has finished: every stage was
\* drained, the cleanup routine has called wait_finished again for every stage
\* and every stage has been finalized
C31_Witness ==
    /\ init_fault = NoFault
    /\ NumStages = MaxStages
    /\ pc[Main] = "done"
    /\ \A i \in Stages : Drained(i)
    /\ Len(CleanupWaits) >= NumStages
    /\ fini_log = StageOrder

(***************************************************************************)
(* C32  monitor_destroy releases the threads parked in monitor_wait        *)
(***************************************************************************)
\* C32: a thread that is parked in monitor_wait on not_full at the moment
\* monitor_destroy of that monitor is called, for the first and only time,
\* leaves its monitor_wait later on, however its wake-up interleaves with the
\* rest of monitor_destroy
C32_DestroyReleasesWaiter ==
    (/\ pc[Main] = "d_signal_not_full" /\ destroy_calls = 0
     /\ pc[Putter] = "put_parked")
        ~> (pc[Putter] # "put_parked")

(***************************************************************************)
(* C33  The finished event of a buffer is one-shot                         *)
(***************************************************************************)
\* C33: once the finished event of a buffer is latched, no step of a put, a get,
\* a signal_finished or a wait_finished of any thread unlatches it, and a call of
\* consumer_producer_wait_finished that finds it latched returns 0 without
\* blocking
C33_FinishedOneShot ==
    [][finished_monitor[0] = 1 =>
          /\ finished_monitor'[0] = 1
          /\ \A t \in FinThreads :
                 pc[t] = "fw_enter" /\ pc'[t] # "fw_enter"
                     => pc'[t] = "fin_loop" /\ wait_result'[t] = "immediate"]_vars

\* with the event latched, both threads have called wait_finished and got 0 at
\* once, records were put and got, and one thread has made all its calls
C33_Witness ==
    /\ finished_monitor[0] = 1
    /\ \A t \in FinThreads : wait_result[t] = "immediate" /\ pc[t] = "fin_loop"
    /\ put_log[0] # <<>> /\ get_log[0] # <<>>
    /\ \E t \in FinThreads : loop_i[t] = FinOps

(***************************************************************************)
(* C34  A failed init unwinds what it has built                            *)
(***************************************************************************)
\* the last call of common_plugin_init has returned an error
InitFailed ==
    pc[Main] = "i_idle" /\ init_errors # <<>> /\ init_errors[Len(init_errors)] # NULL
\* the resources of the call c that are still allocated
LiveOf(c) == {r \in DOMAIN heap : r[2] = c /\ heap[r] = "live"}
\* the successful calls so far
Registered == Cardinality({c \in 1 .. Len(init_errors) : init_errors[c] = NULL})

\* C34: when common_plugin_init (with the consumer_producer_init inside it)
\* returns an error, nothing that this call has constructed is still allocated,
\* nothing was released twice or released without having been constructed, and
\* no instance was registered
C34_FailedInitLeavesNothing ==
    /\ \A r \in DOMAIN heap : heap[r] \in {"live", "released"}
    /\ total_plugin_instances[0] = Registered
    /\ InitFailed => LiveOf(Len(init_errors)) = {}

\* the same, apart from the instance table, which stays allocated for later calls
C34_UnwindsAllButInstanceTable ==
    /\ \A r \in DOMAIN heap : heap[r] \in {"live", "released"}
    /\ total_plugin_instances[0] = Registered
    /\ InitFailed =>
           LiveOf(Len(init_errors)) \subseteq
               {<<"plugin_instances_array", Len(init_errors)>>}

(***************************************************************************)
(* C35  The worker frees every record it removes exactly once              *)
(***************************************************************************)
\* the worker of stage i is between the removal of a record and the last free
\* of its loop body
WorkerHolds(i) == pc[Worker(i)] \in PutLabels \cup {"w_free", "w_end", "w_end_signal"}
\* the objects the worker of stage i has owned
ObjectsOf(i) == {r \in DOMAIN heap : r[2] = i}

\* C35: the worker never frees an object twice or an object it does not own, and
\* once it is through its loop body (sentinel, no result, failing downstream,
\* shutdown seen after the get, result in place or newly allocated) every record
\* it has removed and every new result of its transform has been freed
C35_WorkerFreesOnce ==
    /\ \A r \in DOMAIN heap : heap[r] \in {"live", "released"}
    /\ \A i \in DOMAIN process_function :
           ~WorkerHolds(i) => \A r \in ObjectsOf(i) : heap[r] = "released"

\* a worker whose transform works in place has transformed a record, handed it to
\* a downstream callback, taken the sentinel and left, with everything freed
C35_Witness ==
    /\ process_function[0] = InPlaceTransform
    /\ Len(results[0]) >= 1
    /\ Len(forwarded[0]) >= 2
    /\ pc[Worker(0)] = "exited"
    /\ Cardinality(ObjectsOf(0)) >= 2
    /\ \A r \in ObjectsOf(0) : heap[r] = "released"

\* the threads follow the protocol: each one signals the other thread's monitor
FollowsProtocol == \A t \in PingThreads : other_monitor[t] = 1 - t

\* the turns alternate, thread 0 first: thread 0 is never more than one turn ahead
\* and thread 1 is never ahead
StrictAlternation == loop_i[0] - loop_i[1] \in {0, 1}

BothComplete == \A t \in PingThreads : pc[t] = "pp_done" /\ loop_i[t] = PingRounds

StaticsReset ==
    /\ total_plugin_instances[0] = 0
    /\ current_init_instance_index[0] = 0
    /\ next_wait_instance_index[0] = 0
    /\ next_fini_instance_index[0] = 0
    /\ ~TableAllocated

\* the cycle that has just ended did what a first cycle does: the init, every
\* plugin_place_work, the wait and the fini succeeded, the strings placed came out
\* transformed, in order, with the sentinel last, and nothing is left allocated
CycleSucceeded ==
    /\ \A k \in 1 .. Len(init_errors) : init_errors[k] = NULL
    /\ submit_errors = <<>>
    /\ Len(wait_log) = Len(init_errors)
    /\ \A k \in 1 .. Len(wait_log) : wait_log[k].error = NULL
    /\ Len(fini_log) = Len(init_errors)
    /\ initialized[0] = 0 /\ thread_created[0] = 0
    /\ lines_read # <<>> /\ lines_read[Len(lines_read)] = END
    /\ forwarded[0] = MapTransform(process_function[0], lines_read)
    /\ \A r \in DOMAIN heap : heap[r] = "released"

\* C37: every time plugin_fini has finalized the last outstanding instance, the
\* instance count and the init, wait and fini indices are 0 again and the instance
\* table is released, and the life cycle that ended, the first or a later one,
\* succeeded with the same results.
C37_LifeCyclesRepeat ==
    pc[Main] = "done" => StaticsReset /\ CycleSucceeded

\* a second life cycle has ended, after it forwarded a transformed string and <END>
C37_Witness ==
    /\ pc[Main] = "done"
    /\ Len(init_errors) = MaxCycles
    /\ Len(forwarded[0]) >= 2
    /\ DOMAIN heap # {}

\* C38: on the buffer of a stage, which has one producer (the thread that calls
\* plugin_place_work) and one consumer (the worker of the stage), the producer is
\* never parked in monitor_wait on not_full while the consumer is parked in
\* monitor_wait on not_empty.
C38_NeverBothParked ==
    ~(pc[Main] = "put_parked" /\ queue_of[Main] = 0 /\ pc[Worker(0)] = "get_parked")

\* C39: on every path through main and load_all_plugins the plugin-handle array is
\* freed at most once and is never read or written after it was freed.
C39_HandleArrayFreedOnce == ~Misused(heap)

====
